---- MODULE Spec2Model ----
(***************************************************************************)
(* Olist marketing funnel pipeline: Cleaner (02_data_cleaning.py), Merger  *)
(* (03_data_merging.py), Feature Engine (04_feature_engineering.py) and    *)
(* Funnel Metrics Engine (05_funnel_analysis.py).                          *)
(*                                                                         *)
(* Every stage is a script that reads fixed CSV files, computes in memory, *)
(* and writes fixed CSV files.  A stage is one atomic action.  The disk is *)
(* a function from file name to file; a file holds CSV text fields, an     *)
(* in-memory table holds typed cells, and to_csv / read_csv convert        *)
(* between the two.                                                        *)
(***************************************************************************)
EXTENDS Integers, Sequences, FiniteSets, TLC

VARIABLES
    disk,       \* file name -> file (CSV tables under data/)
    cleaner,    \* 02_data_cleaning.py: status, deals_clean, mql_clean, counters
    merger,     \* 03_data_merging.py: status, master_df, logic_errors
    feature,    \* 04_feature_engineering.py: status, df
    metrics,    \* 05_funnel_analysis.py: status, customer_summary, metrics
    outputs     \* names of the report and documentation files written so far

vars == <<disk, cleaner, merger, feature, metrics, outputs>>

(***************************************************************************)
(* Bounds of the model.                                                    *)
(***************************************************************************)
MaxLeads == 2
MaxDeals == 2
MaxCustomers == 3     \* customers of a small order table
MaxCohort == 141      \* customers without the signal in a large order table
MaxRuns == 2

(***************************************************************************)
(* Cells.  A cell is a record of one shape so that any two cells compare.  *)
(*   nan      a missing value (NaN / NaT / None)                           *)
(*   str      a string, s = its characters                                 *)
(*   num      a number n                                                   *)
(*   date     a datetime64 value, n = its day number                       *)
(*   datetxt  the string that is the ISO text of day n                     *)
(*   numtxt   the string that is the decimal text of n (CSV field only)    *)
(***************************************************************************)
NaN == [t |-> "nan", s |-> <<>>, n |-> 0]
Str(chars) == [t |-> "str", s |-> chars, n |-> 0]
Num(k) == [t |-> "num", s |-> <<>>, n |-> k]
Date(d) == [t |-> "date", s |-> <<>>, n |-> d]
DateTxt(d) == [t |-> "datetxt", s |-> <<>>, n |-> d]
NumTxt(k) == [t |-> "numtxt", s |-> <<>>, n |-> k]

isna(c) == c.t = "nan"

(***************************************************************************)
(* Strings are sequences of one-character strings.                         *)
(***************************************************************************)
UpperCase == <<"A","B","C","D","E","F","G","H","I","J","K","L","M",
               "N","O","P","Q","R","S","T","U","V","W","X","Y","Z">>
LowerCase == <<"a","b","c","d","e","f","g","h","i","j","k","l","m",
               "n","o","p","q","r","s","t","u","v","w","x","y","z">>

char_lower(c) ==
    IF \E i \in DOMAIN UpperCase : UpperCase[i] = c
    THEN LowerCase[CHOOSE i \in DOMAIN UpperCase : UpperCase[i] = c]
    ELSE c

str_lower(s) == [i \in DOMAIN s |-> char_lower(s[i])]

IsSpace(c) == c \in {" ", "\t", "\n"}

RECURSIVE lstrip(_)
lstrip(s) ==
    IF s # <<>> /\ IsSpace(Head(s)) THEN lstrip(Tail(s)) ELSE s

RECURSIVE rstrip(_)
rstrip(s) ==
    IF s # <<>> /\ IsSpace(s[Len(s)]) THEN rstrip(SubSeq(s, 1, Len(s) - 1)) ELSE s

str_strip(s) == rstrip(lstrip(s))

\* 'sub in s' of Python
Contains(s, sub) ==
    \E i \in 0..(Len(s) - Len(sub)) : SubSeq(s, i + 1, i + Len(sub)) = sub

UNKNOWN == <<"u","n","k","n","o","w","n">>

(***************************************************************************)
(* pandas read_csv: the field texts that are read as a missing value.      *)
(***************************************************************************)
STR_NA_VALUES ==
    { <<>>,
      <<"#","N","/","A">>, <<"#","N","/","A"," ","N","/","A">>, <<"#","N","A">>,
      <<"-","1",".","#","I","N","D">>, <<"-","1",".","#","Q","N","A","N">>,
      <<"-","N","a","N">>, <<"-","n","a","n">>,
      <<"1",".","#","I","N","D">>, <<"1",".","#","Q","N","A","N">>,
      <<"<","N","A",">">>, <<"N","/","A">>, <<"N","A">>, <<"N","U","L","L">>,
      <<"N","a","N">>, <<"N","o","n","e">>, <<"n","/","a">>, <<"n","a","n">>,
      <<"n","u","l","l">> }

(***************************************************************************)
(* Tables and files.  A table has a set of column names and a sequence of  *)
(* rows; a row is a function from column name to cell.  A file on disk is  *)
(* a table of CSV fields, or is missing.                                   *)
(***************************************************************************)
Table(cols, rows) == [exists |-> TRUE, cols |-> cols, rows |-> rows]
Missing == [exists |-> FALSE, cols |-> {}, rows |-> <<>>]

MapCells(tbl, F(_)) ==
    [tbl EXCEPT !.rows =
        [i \in DOMAIN tbl.rows |-> [c \in tbl.cols |-> F(tbl.rows[i][c])]]]

\* DataFrame.to_csv(path, index=False): one text field per cell
csv_field(c) ==
    CASE c.t = "nan"  -> Str(<<>>)
      [] c.t = "num"  -> NumTxt(c.n)
      [] c.t = "date" -> DateTxt(c.n)
      [] OTHER        -> c

to_csv(tbl) == MapCells(tbl, csv_field)

\* pd.read_csv(path): NA texts become NaN, numeric text becomes a number,
\* every other text (date text included) stays a string
csv_parse(f) ==
    CASE f.t = "str" /\ f.s \in STR_NA_VALUES -> NaN
      [] f.t = "numtxt" -> Num(f.n)
      [] OTHER -> f

read_csv(file) == MapCells(file, csv_parse)

\* a cell as it reads back from a CSV file before any date parsing
to_datetime_text(c) == IF c.t = "date" THEN DateTxt(c.n) ELSE c

(***************************************************************************)
(* DataFrame operations used by the scripts.                               *)
(***************************************************************************)
\* DataFrame.duplicated().sum(): rows equal to an earlier row (NaN equals NaN)
duplicated_sum(tbl) ==
    Cardinality({i \in DOMAIN tbl.rows : \E j \in 1..(i - 1) : tbl.rows[j] = tbl.rows[i]})

RECURSIVE KeepFirst(_)
KeepFirst(rows) ==
    IF rows = <<>> THEN <<>>
    ELSE LET n == Len(rows)
             init == KeepFirst(SubSeq(rows, 1, n - 1))
         IN  IF \E j \in 1..(n - 1) : rows[j] = rows[n] THEN init
             ELSE Append(init, rows[n])

\* DataFrame.drop_duplicates(): the first of every group of equal rows stays
drop_duplicates(tbl) == [tbl EXCEPT !.rows = KeepFirst(tbl.rows)]

\* DataFrame.isnull().sum().sum()
isnull_sum(tbl) ==
    Cardinality({ic \in (DOMAIN tbl.rows) \X tbl.cols : isna(tbl.rows[ic[1]][ic[2]])})

\* df[col] = F(df[col]), skipped when the column is absent ('if col in df.columns')
map_col(tbl, col, F(_)) ==
    IF col \notin tbl.cols THEN tbl
    ELSE [tbl EXCEPT !.rows =
            [i \in DOMAIN tbl.rows |-> [tbl.rows[i] EXCEPT ![col] = F(tbl.rows[i][col])]]]

\* fillna that leaves the column as it is
fillna_skipped(tbl, col, v) == tbl

\* Series.fillna(v)
fillna(tbl, col, v) ==
    LET fill(c) == IF isna(c) THEN v ELSE c
    IN  map_col(tbl, col, fill)

RECURSIVE fillna_all(_, _, _)
fillna_all(tbl, colseq, v) ==
    IF colseq = <<>> THEN tbl
    ELSE fillna_all(fillna(tbl, Head(colseq), v), Tail(colseq), v)

\* pd.to_datetime(x, errors='coerce'): text that is no date becomes NaT
to_datetime_coerce(c) ==
    CASE c.t = "datetxt" -> Date(c.n)
      [] c.t = "date"    -> c
      [] OTHER           -> NaN

\* pd.to_datetime(x) raises on text that is no date
to_datetime_raises(tbl, col) ==
    col \in tbl.cols /\ \E i \in DOMAIN tbl.rows : tbl.rows[i][col].t \in {"str", "num"}

\* Series.str.lower().str.strip()
lower_strip(c) == IF c.t = "str" THEN Str(str_strip(str_lower(c.s))) ELSE c

\* Series.clip(lower=0)
clip_lower0(c) == IF c.t = "num" /\ c.n < 0 THEN Num(0) ELSE c

\* Series.astype(int) on a column of 0/1 numbers
astype_int(c) == c

Insert(x, sorted) ==
    LET k == Cardinality({i \in DOMAIN sorted : sorted[i] <= x})
    IN  SubSeq(sorted, 1, k) \o <<x>> \o SubSeq(sorted, k + 1, Len(sorted))

RECURSIVE sort_values(_)
sort_values(s) == IF s = <<>> THEN <<>> ELSE Insert(Head(s), sort_values(Tail(s)))

RECURSIVE NumbersOf(_, _)
NumbersOf(rows, col) ==
    IF rows = <<>> THEN <<>>
    ELSE IF Head(rows)[col].t = "num"
         THEN <<Head(rows)[col].n>> \o NumbersOf(Tail(rows), col)
         ELSE NumbersOf(Tail(rows), col)

\* Series.median(): over the non-missing values; NaN when there is none.  The
\* mean of the two middle values is exact for the even numbers of NumberValues.
median(tbl, col) ==
    LET v == sort_values(NumbersOf(tbl.rows, col))
        n == Len(v)
    IN  IF n = 0 THEN NaN
        ELSE IF n % 2 = 1 THEN Num(v[(n + 1) \div 2])
        ELSE Num((v[n \div 2] + v[n \div 2 + 1]) \div 2)

(***************************************************************************)
(* Cleaner, 02_data_cleaning.py                                            *)
(***************************************************************************)
categorical_cols ==
    <<"business_segment", "lead_type", "lead_behaviour_profile",
      "business_type", "sdr_id", "sr_id">>

\* STEP 2: CLEAN CLOSED DEALS DATASET
clean_deals(deals_df) ==
    LET duplicates_before == duplicated_sum(deals_df)
        t1 == drop_duplicates(deals_df)
        duplicates_removed == duplicates_before - duplicated_sum(t1)
        missing_before == isnull_sum(t1)
        t2 == fillna_all(t1, categorical_cols, Str(UNKNOWN))
        t3 == fillna_all(t2, <<"has_company", "has_gtin">>, Num(0))
        t4 == fillna(t3, "average_stock", median(t3, "average_stock"))
        t5 == fillna(t4, "declared_product_catalog_size",
                     median(t4, "declared_product_catalog_size"))
        t6 == fillna(t5, "declared_monthly_revenue",
                     median(t5, "declared_monthly_revenue"))
        missing_after == isnull_sum(t6)
        t7 == map_col(t6, "won_date", to_datetime_coerce)
        t8a == map_col(t7, "business_segment", lower_strip)
        t8b == map_col(t8a, "lead_type", lower_strip)
        t8 == map_col(t8b, "lead_behaviour_profile", lower_strip)
        t9a == map_col(t8, "has_company", astype_int)
        t9 == map_col(t9a, "has_gtin", astype_int)
        t10a == map_col(t9, "average_stock", clip_lower0)
        t10 == map_col(t10a, "declared_monthly_revenue", clip_lower0)
    IN  [table |-> t10,
         duplicates_removed |-> duplicates_removed,
         filled |-> missing_before - missing_after]

\* STEP 3: CLEAN MQL DATASET
clean_mql(mql_df) ==
    LET duplicates_before == duplicated_sum(mql_df)
        t1 == drop_duplicates(mql_df)
        duplicates_removed == duplicates_before - duplicated_sum(t1)
        missing_before == isnull_sum(t1)
        t2 == fillna(t1, "origin", Str(UNKNOWN))
        t3 == fillna(t2, "landing_page_id", Str(UNKNOWN))
        missing_after == isnull_sum(t3)
        t4 == map_col(t3, "first_contact_date", to_datetime_coerce)
        t5 == map_col(t4, "origin", lower_strip)
    IN  [table |-> t5,
         duplicates_removed |-> duplicates_removed,
         filled |-> missing_before - missing_after]

(***************************************************************************)
(* String literals of the scripts.                                         *)
(***************************************************************************)
S_organic == <<"o","r","g","a","n","i","c">>
S_paid == <<"p","a","i","d">>
S_direct == <<"d","i","r","e","c","t">>
S_small == <<"s","m","a","l","l">>
S_medium == <<"m","e","d","i","u","m">>
S_large == <<"l","a","r","g","e">>
S_canceled == <<"c","a","n","c","e","l","e","d">>
S_delivered == <<"d","e","l","i","v","e","r","e","d">>
day_names == <<<<"M","o","n","d","a","y">>,
              <<"T","u","e","s","d","a","y">>,
              <<"W","e","d","n","e","s","d","a","y">>,
              <<"T","h","u","r","s","d","a","y">>,
              <<"F","r","i","d","a","y">>,
              <<"S","a","t","u","r","d","a","y">>,
              <<"S","u","n","d","a","y">>>>

(***************************************************************************)
(* Merger, 03_data_merging.py                                              *)
(***************************************************************************)
RAW_DEALS == "data/raw/olist_closed_deals_dataset.csv"
RAW_MQL == "data/raw/olist_marketing_qualified_leads_dataset.csv"
CLEANED_DEALS_FILE == "data/processed/cleaned_deals.csv"
CLEANED_MQL_FILE == "data/processed/cleaned_leads.csv"
MASTER_FILE == "data/processed/olist_master.csv"
MASTER_COLUMNS_FILE == "data/processed/master_columns.txt"
FEATURE_DOCS_FILE == "data/processed/feature_engineering_documentation.md"
ENGINEERED_FILE == "data/processed/olist_master_engineered.csv"

FileNames ==
    {RAW_DEALS, RAW_MQL, CLEANED_DEALS_FILE, CLEANED_MQL_FILE, MASTER_FILE, ENGINEERED_FILE}

\* a row of 'cols' columns that are all missing
nan_row(cols) == [c \in cols |-> NaN]

RECURSIVE merge_rows(_, _, _)
merge_rows(left_rows, right, key) ==
    IF left_rows = <<>> THEN <<>>
    ELSE IF Len(left_rows) = 1
    THEN LET l == Head(left_rows)
             rcols == right.cols \ {key}
             hits == SelectSeq(right.rows, LAMBDA r : r[key] = l[key])
         IN  IF hits = <<>>
             THEN <<l @@ nan_row(rcols)>>
             ELSE [j \in DOMAIN hits |-> l @@ [c \in rcols |-> hits[j][c]]]
    ELSE merge_rows(SubSeq(left_rows, 1, Len(left_rows) \div 2), right, key)
         \o merge_rows(SubSeq(left_rows, (Len(left_rows) \div 2) + 1, Len(left_rows)),
                       right, key)

\* left.merge(right, on=key, how='left'): the left rows in order, each once per
\* right row with the same key, or once with missing right columns
merge_left(left, right, key) ==
    Table(left.cols \cup right.cols, merge_rows(left.rows, right, key))

\* df[col] = F(row) for every row
add_col(tbl, col, F(_)) ==
    [tbl EXCEPT !.cols = @ \cup {col},
                !.rows = [i \in DOMAIN tbl.rows |->
                            [c \in {col} |-> F(tbl.rows[i])] @@ tbl.rows[i]]]

\* (~s.isna()).astype(int)
notna_int(c) == IF isna(c) THEN Num(0) ELSE Num(1)

\* (a & b).astype(int)
bool_int(b) == IF b THEN Num(1) ELSE Num(0)

\* stage_indicators with stage 2 taken from the won date
stage_indicators_contact_from_won(df) ==
    LET s1(r) == Num(1)
        s2(r) == notna_int(r["won_date"])
        s3(r) == notna_int(r["sdr_id"])
        s4(r) == notna_int(r["sr_id"])
        s5(r) == notna_int(r["won_date"])
        t1 == add_col(df, "stage_1_lead_generated", s1)
        t2 == add_col(t1, "stage_2_first_contact", s2)
        t3 == add_col(t2, "stage_3_sales_qualified", s3)
        t4 == add_col(t3, "stage_4_consultation", s4)
    IN  add_col(t4, "stage_5_deal_closed", s5)

\* STEP 4: CREATE FUNNEL STAGE INDICATORS
stage_indicators(df) ==
    LET s1(r) == Num(1)
        s2(r) == notna_int(r["first_contact_date"])
        s3(r) == notna_int(r["sdr_id"])
        s4(r) == notna_int(r["sr_id"])
        s5(r) == notna_int(r["won_date"])
        t1 == add_col(df, "stage_1_lead_generated", s1)
        t2 == add_col(t1, "stage_2_first_contact", s2)
        t3 == add_col(t2, "stage_3_sales_qualified", s3)
        t4 == add_col(t3, "stage_4_consultation", s4)
    IN  add_col(t4, "stage_5_deal_closed", s5)

\* conversion_flags in which a closed deal clears the drop-out after the lead
conversion_flags_lead_unless_closed(df) ==
    LET conv(r) == r["stage_5_deal_closed"]
        d1(r) == bool_int(r["stage_2_first_contact"] = Num(0)
                          /\ r["stage_5_deal_closed"] = Num(0))
        d2(r) == bool_int(r["stage_2_first_contact"] = Num(1)
                          /\ r["stage_3_sales_qualified"] = Num(0))
        d3(r) == bool_int(r["stage_3_sales_qualified"] = Num(1)
                          /\ r["stage_4_consultation"] = Num(0))
        d4(r) == bool_int(r["stage_4_consultation"] = Num(1)
                          /\ r["stage_5_deal_closed"] = Num(0))
        t1 == add_col(df, "is_converted", conv)
        t2 == add_col(t1, "dropout_after_lead", d1)
        t3 == add_col(t2, "dropout_after_contact", d2)
        t4 == add_col(t3, "dropout_after_qualification", d3)
    IN  add_col(t4, "dropout_after_consultation", d4)

\* conversion_flags whose later drop-off flags do not ask for the prior stage
conversion_flags_without_prior_stage(df) ==
    LET conv(r) == r["stage_5_deal_closed"]
        d1(r) == Num(1 - r["stage_2_first_contact"].n)
        d2(r) == bool_int(r["stage_3_sales_qualified"] = Num(0))
        d3(r) == bool_int(r["stage_4_consultation"] = Num(0))
        d4(r) == bool_int(r["stage_5_deal_closed"] = Num(0))
        t1 == add_col(df, "is_converted", conv)
        t2 == add_col(t1, "dropout_after_lead", d1)
        t3 == add_col(t2, "dropout_after_contact", d2)
        t4 == add_col(t3, "dropout_after_qualification", d3)
    IN  add_col(t4, "dropout_after_consultation", d4)

\* STEP 5: CREATE CONVERSION FLAGS
conversion_flags(df) ==
    LET conv(r) == r["stage_5_deal_closed"]
        d1(r) == Num(1 - r["stage_2_first_contact"].n)
        d2(r) == bool_int(r["stage_2_first_contact"] = Num(1)
                          /\ r["stage_3_sales_qualified"] = Num(0))
        d3(r) == bool_int(r["stage_3_sales_qualified"] = Num(1)
                          /\ r["stage_4_consultation"] = Num(0))
        d4(r) == bool_int(r["stage_4_consultation"] = Num(1)
                          /\ r["stage_5_deal_closed"] = Num(0))
        t1 == add_col(df, "is_converted", conv)
        t2 == add_col(t1, "dropout_after_lead", d1)
        t3 == add_col(t2, "dropout_after_contact", d2)
        t4 == add_col(t3, "dropout_after_qualification", d3)
    IN  add_col(t4, "dropout_after_consultation", d4)

\* STEP 6: CREATE TIME-BASED FEATURES.  The calendar columns (year, month,
\* quarter, weekday of the two dates) depend on the date cell alone and are
\* not carried in the model.
time_features(df) ==
    LET zero(r) == Num(0)
        close(r) == IF r["won_date"].t = "date" /\ r["first_contact_date"].t = "date"
                    THEN Num((r["won_date"].n - r["first_contact_date"].n) \div 24)
                    ELSE NaN
        t1 == add_col(df, "days_to_first_contact", zero)
    IN  add_col(t1, "days_to_close", close)

\* str(x) of Python for a cell of a text column
py_str(c) == IF isna(c) THEN <<"n","a","n">> ELSE c.s

\* lead_source_category that asks for the whole origin to be the channel word
lead_source_category_whole_word(x) ==
    LET low == str_lower(py_str(x))
    IN  IF low = S_organic THEN Str(S_organic)
        ELSE IF low = S_paid THEN Str(S_paid)
        ELSE IF low = S_direct THEN Str(S_direct)
        ELSE Str(<<"o","t","h","e","r">>)

lead_source_category(x) ==
    LET low == str_lower(py_str(x))
    IN  IF Contains(low, S_organic) THEN Str(S_organic)
        ELSE IF Contains(low, S_paid) THEN Str(S_paid)
        ELSE IF Contains(low, S_direct) THEN Str(S_direct)
        ELSE Str(<<"o","t","h","e","r">>)

\* categorize_business_size with every boundary value in the upper bucket
categorize_business_size_open_bounds(revenue) ==
    IF isna(revenue) THEN Str(UNKNOWN)
    ELSE IF revenue.n = 0 THEN Str(<<"s","t","a","r","t","u","p">>)
    ELSE IF revenue.n < 1000 THEN Str(<<"m","i","c","r","o">>)
    ELSE IF revenue.n < 10000 THEN Str(S_small)
    ELSE IF revenue.n < 100000 THEN Str(S_medium)
    ELSE Str(S_large)

categorize_business_size(revenue) ==
    IF isna(revenue) THEN Str(UNKNOWN)
    ELSE IF revenue.n = 0 THEN Str(<<"s","t","a","r","t","u","p">>)
    ELSE IF revenue.n <= 1000 THEN Str(<<"m","i","c","r","o">>)
    ELSE IF revenue.n <= 10000 THEN Str(S_small)
    ELSE IF revenue.n <= 100000 THEN Str(S_medium)
    ELSE Str(S_large)

categorize_catalog_size(catalog_size) ==
    IF isna(catalog_size) THEN Str(UNKNOWN)
    ELSE IF catalog_size.n <= 10 THEN Str(S_small)
    ELSE IF catalog_size.n <= 100 THEN Str(S_medium)
    ELSE IF catalog_size.n <= 1000 THEN Str(S_large)
    ELSE Str(<<"e","n","t","e","r","p","r","i","s","e">>)

\* STEP 7: CREATE BUSINESS INTELLIGENCE FEATURES
business_features(df) ==
    LET src(r) == lead_source_category(r["origin"])
        size(r) == categorize_business_size(r["declared_monthly_revenue"])
        cat(r) == categorize_catalog_size(r["declared_product_catalog_size"])
        t1 == add_col(df, "lead_source_category", src)
        t2 == add_col(t1, "business_size_category", size)
    IN  add_col(t2, "catalog_size_category", cat)

RECURSIVE col_sum(_, _)
col_sum(rows, col) ==
    IF rows = <<>> THEN 0 ELSE Head(rows)[col].n + col_sum(Tail(rows), col)

\* funnel_validation with the stage 2 count taken from the stage 1 column
funnel_validation_stage_1_twice(df) ==
    <<col_sum(df.rows, "stage_1_lead_generated"),
      col_sum(df.rows, "stage_1_lead_generated"),
      col_sum(df.rows, "stage_3_sales_qualified"),
      col_sum(df.rows, "stage_4_consultation"),
      col_sum(df.rows, "stage_5_deal_closed")>>

\* STEP 8: the stage counts of funnel_validation, by stage number
funnel_validation(df) ==
    <<col_sum(df.rows, "stage_1_lead_generated"),
      col_sum(df.rows, "stage_2_first_contact"),
      col_sum(df.rows, "stage_3_sales_qualified"),
      col_sum(df.rows, "stage_4_consultation"),
      col_sum(df.rows, "stage_5_deal_closed")>>

\* logic_errors with every check 'not less' in place of 'greater'
logic_errors_on_equal_counts(df) ==
    LET n == funnel_validation(df)
    IN  (IF n[2] >= n[1] THEN <<"Stage 2 > Stage 1">> ELSE <<>>)
        \o (IF n[3] >= n[2] THEN <<"Stage 3 > Stage 2">> ELSE <<>>)
        \o (IF n[4] >= n[3] THEN <<"Stage 4 > Stage 3">> ELSE <<>>)
        \o (IF n[5] >= n[4] THEN <<"Stage 5 > Stage 4">> ELSE <<>>)

\* STEP 8: logic_errors, in the order the checks append them
logic_errors(df) ==
    LET n == funnel_validation(df)
    IN  (IF n[2] > n[1] THEN <<"Stage 2 > Stage 1">> ELSE <<>>)
        \o (IF n[3] > n[2] THEN <<"Stage 3 > Stage 2">> ELSE <<>>)
        \o (IF n[4] > n[3] THEN <<"Stage 4 > Stage 3">> ELSE <<>>)
        \o (IF n[5] > n[4] THEN <<"Stage 5 > Stage 4">> ELSE <<>>)

\* the columns the Merger indexes without testing for them
merger_required_mql == {"mql_id", "first_contact_date", "origin"}
merger_required_deals ==
    {"mql_id", "sdr_id", "sr_id", "won_date",
     "declared_monthly_revenue", "declared_product_catalog_size"}

\* STEPS 3 to 7 on the loaded tables
build_master(mql_df, deals_df) ==
    LET t3 == merge_left(mql_df, deals_df, "mql_id")
        t4 == stage_indicators(t3)
        t5 == conversion_flags(t4)
        t6 == time_features(t5)
    IN  business_features(t6)

(***************************************************************************)
(* Stage actions.  A script that cannot load its input prints the error    *)
(* and exits ("aborted"); an exception nothing catches ends it ("crashed").*)
(***************************************************************************)
NoTable == Missing

cleaner_idle ==
    [status |-> "idle", passes |-> 0, deals_clean |-> NoTable, mql_clean |-> NoTable,
     deals_removed |-> 0, deals_filled |-> 0, mql_removed |-> 0, mql_filled |-> 0]

merger_idle ==
    [status |-> "idle", master_df |-> NoTable, logic_errors |-> <<>>,
     funnel_validation |-> <<0, 0, 0, 0, 0>>]

\* the Cleaner's result after STEPS 2 and 3 on the given tables
cleaner_result(deals_df, mql_df, passes) ==
    LET d == clean_deals(deals_df)
        m == clean_mql(mql_df)
    IN  [status |-> "done", passes |-> passes,
         deals_clean |-> d.table, mql_clean |-> m.table,
         deals_removed |-> d.duplicates_removed, deals_filled |-> d.filled,
         mql_removed |-> m.duplicates_removed, mql_filled |-> m.filled]

\* the Cleaner persists its two tables for the Merger
save_cleaned(dsk, c) ==
    [dsk EXCEPT ![CLEANED_DEALS_FILE] = to_csv(c.deals_clean),
                ![CLEANED_MQL_FILE] = to_csv(c.mql_clean)]

\* 02_data_cleaning.py, the whole script
RunCleaner ==
    /\ IF ~disk[RAW_DEALS].exists \/ ~disk[RAW_MQL].exists
       THEN /\ cleaner' = [cleaner_idle EXCEPT !.status = "aborted"]
            /\ disk' = disk
       ELSE \E deals_df \in {read_csv(disk[RAW_DEALS])} :
            \E mql_df \in {read_csv(disk[RAW_MQL])} :
            \E c \in {cleaner_result(deals_df, mql_df, 1)} :
                /\ cleaner' = c
                /\ disk' = save_cleaned(disk, c)
    /\ UNCHANGED <<merger, feature, metrics, outputs>>

\* STEPS 2 and 3 applied once more, to the tables the Cleaner produced
Reclean ==
    /\ cleaner.status = "done"
    /\ cleaner.passes = 1
    /\ cleaner' = cleaner_result(cleaner.deals_clean, cleaner.mql_clean, 2)
    /\ UNCHANGED <<disk, merger, feature, metrics, outputs>>

\* STEP 1: LOAD CLEANED DATASETS, with the dates converted back
load_cleaned_deals(dsk) == map_col(read_csv(dsk[CLEANED_DEALS_FILE]), "won_date", to_datetime_coerce)
load_cleaned_mql(dsk) == map_col(read_csv(dsk[CLEANED_MQL_FILE]), "first_contact_date", to_datetime_coerce)

\* merger_load_fails without the test for a missing file
merger_load_fails_on_dates_only(dsk) ==
    \/ to_datetime_raises(read_csv(dsk[CLEANED_DEALS_FILE]), "won_date")
    \/ to_datetime_raises(read_csv(dsk[CLEANED_MQL_FILE]), "first_contact_date")

\* STEP 1 ends the script: a file is missing or a date text does not parse
merger_load_fails(dsk) ==
    \/ ~dsk[CLEANED_DEALS_FILE].exists
    \/ ~dsk[CLEANED_MQL_FILE].exists
    \/ to_datetime_raises(read_csv(dsk[CLEANED_DEALS_FILE]), "won_date")
    \/ to_datetime_raises(read_csv(dsk[CLEANED_MQL_FILE]), "first_contact_date")

\* 03_data_merging.py, the whole script
RunMerger ==
    /\ IF merger_load_fails(disk)
       THEN /\ merger' = [merger_idle EXCEPT !.status = "aborted"]
            /\ disk' = disk
            /\ outputs' = outputs
       ELSE \E deals_df \in {load_cleaned_deals(disk)} :
            \E mql_df \in {load_cleaned_mql(disk)} :
                IF ~(merger_required_mql \subseteq mql_df.cols)
                   \/ ~(merger_required_deals \subseteq deals_df.cols)
                THEN /\ merger' = [merger_idle EXCEPT !.status = "crashed"]
                     /\ disk' = disk
                     /\ outputs' = outputs
                ELSE \E master_df \in {build_master(mql_df, deals_df)} :
                         /\ merger' = [status |-> "done", master_df |-> master_df,
                                       logic_errors |-> logic_errors(master_df),
                                       funnel_validation |-> funnel_validation(master_df)]
                         /\ disk' = [disk EXCEPT ![MASTER_FILE] = to_csv(master_df)]
                         /\ outputs' = outputs \cup {MASTER_COLUMNS_FILE}
    /\ UNCHANGED <<cleaner, feature, metrics>>

(***************************************************************************)
(* groupby, as the Feature Engine and the Metrics Engine use it            *)
(***************************************************************************)
\* characters in their code point order, for the order of group keys
CodePoints == <<" ","#","$","(",")","+","-",".","/","0","1","2","3","4","5","6","7","8","9","<",">","A","B","C","D","E","F","G","H","I","J","K","L","M","N","O","P","Q","R","S","T","U","V","W","X","Y","Z","_","a","b","c","d","e","f","g","h","i","j","k","l","m","n","o","p","q","r","s","t","u","v","w","x","y","z">>

char_rank(c) ==
    IF \E i \in DOMAIN CodePoints : CodePoints[i] = c
    THEN CHOOSE i \in DOMAIN CodePoints : CodePoints[i] = c
    ELSE 0

RECURSIVE str_leq(_, _)
str_leq(a, b) ==
    IF a = <<>> THEN TRUE
    ELSE IF b = <<>> THEN FALSE
    ELSE IF Head(a) = Head(b) THEN str_leq(Tail(a), Tail(b))
    ELSE char_rank(Head(a)) < char_rank(Head(b))

\* order of two group keys of one column: numbers by value, strings by text
key_leq(a, b) == IF a.t = "str" /\ b.t = "str" THEN str_leq(a.s, b.s) ELSE a.n <= b.n

\* the distinct non-missing values of a column, sorted: the groups of groupby(col)
group_keys(tbl, col) ==
    LET keys == {tbl.rows[i][col] : i \in {j \in DOMAIN tbl.rows : ~isna(tbl.rows[j][col])}}
        ranked == {<<Cardinality({o \in keys : key_leq(o, k)}), k>> : k \in keys}
    IN  [p \in 1..Cardinality(keys) |-> (CHOOSE pr \in ranked : pr[1] = p)[2]]

\* the rows of one group, in table order
group_rows(tbl, col, key) == SelectSeq(tbl.rows, LAMBDA r : r[col] = key)

(***************************************************************************)
(* Feature Engine, 04_feature_engineering.py                               *)
(***************************************************************************)
\* categorize_delay with the bounds 7 and 30 in the upper bucket
categorize_delay_open_bounds(days) ==
    IF days.n <= 0 THEN Str(<<"O","n"," ","T","i","m","e","/","E","a","r","l","y">>)
    ELSE IF days.n < 7 THEN Str(<<"M","i","n","o","r"," ","D","e","l","a","y"," ","(","1","-","7"," ","d","a","y","s",")">>)
    ELSE IF days.n < 30 THEN Str(<<"M","a","j","o","r"," ","D","e","l","a","y"," ","(","8","-","3","0"," ","d","a","y","s",")">>)
    ELSE Str(<<"S","e","v","e","r","e"," ","D","e","l","a","y"," ","(","3","0","+"," ","d","a","y","s",")">>)

categorize_delay(days) ==
    IF days.n <= 0 THEN Str(<<"O","n"," ","T","i","m","e","/","E","a","r","l","y">>)
    ELSE IF days.n <= 7 THEN Str(<<"M","i","n","o","r"," ","D","e","l","a","y"," ","(","1","-","7"," ","d","a","y","s",")">>)
    ELSE IF days.n <= 30 THEN Str(<<"M","a","j","o","r"," ","D","e","l","a","y"," ","(","8","-","3","0"," ","d","a","y","s",")">>)
    ELSE Str(<<"S","e","v","e","r","e"," ","D","e","l","a","y"," ","(","3","0","+"," ","d","a","y","s",")">>)

create_delivery_delay_feature(df) ==
    LET t1 == map_col(df, "order_purchase_timestamp", to_datetime_coerce)
        t2 == map_col(t1, "order_delivered_customer_date", to_datetime_coerce)
        t3 == map_col(t2, "order_estimated_delivery_date", to_datetime_coerce)
        \* timedelta.dt.days is the floor of the difference in days
        delay(r) == IF r["order_delivered_customer_date"].t = "date"
                       /\ r["order_estimated_delivery_date"].t = "date"
                    THEN Num((r["order_delivered_customer_date"].n
                              - r["order_estimated_delivery_date"].n) \div 24)
                    ELSE NaN
        t4 == add_col(t3, "delivery_delay_days", delay)
        t5 == fillna(t4, "delivery_delay_days", Num(0))
        delayed(r) == bool_int(r["delivery_delay_days"].n > 0)
        t6 == add_col(t5, "is_delayed", delayed)
        cat(r) == categorize_delay(r["delivery_delay_days"])
    IN  add_col(t6, "delay_category", cat)

\* categorize_review_score with the neutral label reaching down to 2
categorize_review_score_neutral_from_two(score) ==
    IF isna(score) THEN Str(<<"N","o"," ","R","e","v","i","e","w">>)
    ELSE IF score.n >= 4 THEN Str(<<"P","o","s","i","t","i","v","e"," ","(","4","-","5",")">>)
    ELSE IF score.n >= 2 THEN Str(<<"N","e","u","t","r","a","l"," ","(","3",")">>)
    ELSE Str(<<"N","e","g","a","t","i","v","e"," ","(","1","-","2",")">>)

categorize_review_score(score) ==
    IF isna(score) THEN Str(<<"N","o"," ","R","e","v","i","e","w">>)
    ELSE IF score.n >= 4 THEN Str(<<"P","o","s","i","t","i","v","e"," ","(","4","-","5",")">>)
    ELSE IF score.n = 3 THEN Str(<<"N","e","u","t","r","a","l"," ","(","3",")">>)
    ELSE Str(<<"N","e","g","a","t","i","v","e"," ","(","1","-","2",")">>)

\* create_review_score_features whose negative flag has no lower bound
create_review_score_features_no_floor(df) ==
    LET label(r) == categorize_review_score(r["review_score"])
        t1 == add_col(df, "review_score_label", label)
        neg(r) == bool_int(~isna(r["review_score"]) /\ r["review_score"].n <= 2)
        t2 == add_col(t1, "has_negative_review", neg)
        none(r) == bool_int(isna(r["review_score"]))
    IN  add_col(t2, "has_no_review", none)

create_review_score_features(df) ==
    LET label(r) == categorize_review_score(r["review_score"])
        t1 == add_col(df, "review_score_label", label)
        neg(r) == bool_int(~isna(r["review_score"])
                           /\ r["review_score"].n >= 1 /\ r["review_score"].n <= 2)
        t2 == add_col(t1, "has_negative_review", neg)
        none(r) == bool_int(isna(r["review_score"]))
    IN  add_col(t2, "has_no_review", none)

\* comparisons with a missing count are all false, so it falls to the last branch
categorize_customer(orders) ==
    IF ~isna(orders) /\ orders.n = 1 THEN Str(<<"O","n","e","-","t","i","m","e"," ","C","u","s","t","o","m","e","r">>)
    ELSE IF ~isna(orders) /\ orders.n <= 3 THEN Str(<<"O","c","c","a","s","i","o","n","a","l"," ","C","u","s","t","o","m","e","r"," ","(","2","-","3"," ","o","r","d","e","r","s",")">>)
    ELSE Str(<<"F","r","e","q","u","e","n","t"," ","C","u","s","t","o","m","e","r"," ","(","4","+"," ","o","r","d","e","r","s",")">>)

\* the repeat-customer step with an inner merge: rows without a count are lost
create_repeat_customer_feature_inner_merge(df) ==
    LET keys == group_keys(df, "customer_unique_id")
        customer_order_counts ==
            Table({"customer_unique_id", "total_orders"},
                  [p \in DOMAIN keys |->
                      [customer_unique_id |-> keys[p],
                       total_orders |-> Num(Len(group_rows(df, "customer_unique_id", keys[p])))]])
        m == merge_left(df, customer_order_counts, "customer_unique_id")
        t1 == [m EXCEPT !.rows = SelectSeq(m.rows, LAMBDA r : ~isna(r["total_orders"]))]
        rep(r) == bool_int(~isna(r["total_orders"]) /\ r["total_orders"].n >= 2)
        t2 == add_col(t1, "is_repeat_customer", rep)
        cat(r) == categorize_customer(r["total_orders"])
    IN  add_col(t2, "customer_category", cat)

\* groupby('customer_unique_id').size() has one row per customer id, none for
\* a missing id; the left merge on the id brings the count to every order row
create_repeat_customer_feature(df) ==
    LET keys == group_keys(df, "customer_unique_id")
        customer_order_counts ==
            Table({"customer_unique_id", "total_orders"},
                  [p \in DOMAIN keys |->
                      [customer_unique_id |-> keys[p],
                       total_orders |-> Num(Len(group_rows(df, "customer_unique_id", keys[p])))]])
        t1 == merge_left(df, customer_order_counts, "customer_unique_id")
        rep(r) == bool_int(~isna(r["total_orders"]) /\ r["total_orders"].n >= 2)
        t2 == add_col(t1, "is_repeat_customer", rep)
        cat(r) == categorize_customer(r["total_orders"])
    IN  add_col(t2, "customer_category", cat)

categorize_order_status(status) ==
    IF status = Str(S_delivered) THEN Str(<<"C","o","m","p","l","e","t","e","d">>)
    ELSE IF status = Str(S_canceled) THEN Str(<<"C","a","n","c","e","l","e","d">>)
    ELSE IF status \in {Str(<<"s","h","i","p","p","e","d">>), Str(<<"p","r","o","c","e","s","s","i","n","g">>), Str(<<"a","p","p","r","o","v","e","d">>)}
         THEN Str(<<"I","n"," ","P","r","o","g","r","e","s","s">>)
    ELSE Str(<<"O","t","h","e","r">>)

create_cancellation_features(df) ==
    LET canc(r) == bool_int(r["order_status"] = Str(S_canceled))
        t1 == add_col(df, "is_canceled", canc)
        cat(r) == categorize_order_status(r["order_status"])
    IN  add_col(t1, "order_status_category", cat)

\* comparisons with a missing hour are all false
categorize_hour(hour) ==
    IF ~isna(hour) /\ 6 <= hour.n /\ hour.n < 12 THEN Str(<<"M","o","r","n","i","n","g"," ","(","6","-","1","1",")">>)
    ELSE IF ~isna(hour) /\ 12 <= hour.n /\ hour.n < 18 THEN Str(<<"A","f","t","e","r","n","o","o","n"," ","(","1","2","-","1","7",")">>)
    ELSE IF ~isna(hour) /\ 18 <= hour.n /\ hour.n < 22 THEN Str(<<"E","v","e","n","i","n","g"," ","(","1","8","-","2","1",")">>)
    ELSE Str(<<"N","i","g","h","t"," ","(","2","2","-","5",")">>)

\* purchase_year and purchase_month are calendar functions of the timestamp
\* alone and are not carried; day 0 of the model's clock is a Monday.
create_purchase_timing_features(df) ==
    LET dow(r) == IF isna(r["order_purchase_timestamp"]) THEN NaN
                  ELSE Num((r["order_purchase_timestamp"].n \div 24) % 7)
        t1 == add_col(df, "purchase_day_of_week", dow)
        hour(r) == IF isna(r["order_purchase_timestamp"]) THEN NaN
                   ELSE Num(r["order_purchase_timestamp"].n % 24)
        t2 == add_col(t1, "purchase_hour", hour)
        name(r) == IF isna(r["purchase_day_of_week"]) THEN NaN
                   ELSE Str(day_names[r["purchase_day_of_week"].n + 1])
        t3 == add_col(t2, "purchase_day_name", name)
        cat(r) == categorize_hour(r["purchase_hour"])
    IN  add_col(t3, "purchase_time_category", cat)

\* the drop-off flags with a combined flag that leaves out the negative review
create_drop_off_flags_without_review(df) ==
    LET dd(r) == r["is_delayed"]
        t1 == add_col(df, "dropped_due_to_delay", dd)
        dc(r) == r["is_canceled"]
        t2 == add_col(t1, "dropped_due_to_cancellation", dc)
        dr(r) == r["has_negative_review"]
        t3 == add_col(t2, "dropped_due_to_negative_review", dr)
        any(r) == bool_int(r["is_delayed"] = Num(1) \/ r["is_canceled"] = Num(1))
        t4 == add_col(t3, "has_negative_experience", any)
        severe(r) == bool_int(r["is_delayed"].n + r["is_canceled"].n
                              + r["has_negative_review"].n >= 2)
    IN  add_col(t4, "has_severe_issues", severe)

create_drop_off_flags(df) ==
    LET dd(r) == r["is_delayed"]
        t1 == add_col(df, "dropped_due_to_delay", dd)
        dc(r) == r["is_canceled"]
        t2 == add_col(t1, "dropped_due_to_cancellation", dc)
        dr(r) == r["has_negative_review"]
        t3 == add_col(t2, "dropped_due_to_negative_review", dr)
        any(r) == bool_int(r["is_delayed"] = Num(1) \/ r["is_canceled"] = Num(1)
                           \/ r["has_negative_review"] = Num(1))
        t4 == add_col(t3, "has_negative_experience", any)
        severe(r) == bool_int(r["is_delayed"].n + r["is_canceled"].n
                              + r["has_negative_review"].n >= 2)
    IN  add_col(t4, "has_severe_issues", severe)

categorize_order_value(value) ==
    IF isna(value) THEN Str(<<"U","n","k","n","o","w","n">>)
    ELSE IF value.n < 50 THEN Str(<<"L","o","w"," ","V","a","l","u","e"," ","(","<","$","5","0",")">>)
    ELSE IF value.n < 200 THEN Str(<<"M","e","d","i","u","m"," ","V","a","l","u","e"," ","(","$","5","0","-","2","0","0",")">>)
    ELSE Str(<<"H","i","g","h"," ","V","a","l","u","e"," ","(","$","2","0","0","+",")">>)

create_order_value_features(df) ==
    LET cat(r) == categorize_order_value(r["price"])
        t1 == add_col(df, "order_value_category", cat)
        high(r) == bool_int(~isna(r["price"]) /\ r["price"].n >= 200)
    IN  add_col(t1, "is_high_value_order", high)

\* the columns the Feature Engine indexes without testing for them
feature_required ==
    {"order_delivered_customer_date", "order_estimated_delivery_date", "review_score",
     "customer_unique_id", "order_status", "order_purchase_timestamp", "price"}

\* main(): the seven feature steps in order
engineer(df) ==
    LET t1 == create_delivery_delay_feature(df)
        t2 == create_review_score_features(t1)
        t3 == create_repeat_customer_feature(t2)
        t4 == create_cancellation_features(t3)
        t5 == create_purchase_timing_features(t4)
        t6 == create_drop_off_flags(t5)
    IN  create_order_value_features(t6)

\* runs counts the runs of the script so far
feature_idle == [status |-> "idle", df |-> NoTable, runs |-> 0]

\* load_master_data(): None when the file is not found
load_master_data(dsk) == read_csv(dsk[MASTER_FILE])

\* save_engineered_dataset writing the engineered table over the input as well
save_engineered_dataset_over_input(dsk, df) ==
    [dsk EXCEPT ![ENGINEERED_FILE] = to_csv(df), ![MASTER_FILE] = to_csv(df)]

\* save_engineered_dataset(df): the table goes to the engineered file
save_engineered_dataset(dsk, df) == [dsk EXCEPT ![ENGINEERED_FILE] = to_csv(df)]

\* 04_feature_engineering.py main(), the whole script
RunFeatureEngine ==
    /\ feature.runs < MaxRuns
    /\ IF ~disk[MASTER_FILE].exists
       THEN /\ feature' = [feature_idle EXCEPT !.status = "aborted", !.runs = feature.runs + 1]
            /\ disk' = disk
            /\ outputs' = outputs
       ELSE \E df \in {load_master_data(disk)} :
                IF ~(feature_required \subseteq df.cols)
                THEN /\ feature' = [feature_idle EXCEPT !.status = "crashed",
                                                        !.runs = feature.runs + 1]
                     /\ disk' = disk
                     /\ outputs' = outputs
                ELSE \E out \in {engineer(df)} :
                         /\ feature' = [status |-> "done", df |-> out,
                                        runs |-> feature.runs + 1]
                         /\ disk' = save_engineered_dataset(disk, out)
                         /\ outputs' = outputs \cup {FEATURE_DOCS_FILE}
    /\ UNCHANGED <<cleaner, merger, metrics>>


(***************************************************************************)
(* Funnel Metrics Engine, 05_funnel_analysis.py                            *)
(***************************************************************************)
\* 'sum' over the non-missing cells, by halves
RECURSIVE agg_sum(_, _)
agg_sum(rows, col) ==
    IF rows = <<>> THEN 0
    ELSE IF Len(rows) = 1 THEN (IF rows[1][col].t = "num" THEN rows[1][col].n ELSE 0)
    ELSE agg_sum(SubSeq(rows, 1, Len(rows) \div 2), col)
         + agg_sum(SubSeq(rows, (Len(rows) \div 2) + 1, Len(rows)), col)

\* 'count' taken as the number of rows of the group
agg_count_all_rows(rows, col) == Len(rows)

\* 'count': the non-missing cells
agg_count(rows, col) == Cardinality({i \in DOMAIN rows : ~isna(rows[i][col])})

\* 'max' / 'min' over the non-missing cells, missing when there is none
agg_max(rows, col) ==
    LET v == {rows[i][col] : i \in {j \in DOMAIN rows : ~isna(rows[j][col])}}
    IN  IF v = {} THEN NaN ELSE CHOOSE c \in v : \A o \in v : o.n <= c.n

agg_min(rows, col) ==
    LET v == {rows[i][col] : i \in {j \in DOMAIN rows : ~isna(rows[j][col])}}
    IN  IF v = {} THEN NaN ELSE CHOOSE c \in v : \A o \in v : c.n <= o.n

\* 'first': the first non-missing cell
agg_first(rows, col) ==
    LET idx == {i \in DOMAIN rows : ~isna(rows[i][col])}
    IN  IF idx = {} THEN NaN ELSE rows[CHOOSE i \in idx : \A j \in idx : i <= j][col]

customer_summary_cols ==
    {"customer_unique_id", "total_orders", "experienced_delay", "experienced_cancellation",
     "gave_negative_review", "had_negative_experience", "total_spent", "customer_state",
     "first_order_date", "customer_type"}

\* the customer type with customers without an order counted as one-time
customer_type_of_one_or_less(x) == IF x.n <= 1 THEN Str(<<"O","n","e","-","t","i","m","e">>) ELSE Str(<<"R","e","p","e","a","t">>)

customer_type_of(x) == IF x.n = 1 THEN Str(<<"O","n","e","-","t","i","m","e">>) ELSE Str(<<"R","e","p","e","a","t">>)

\* one row of the customer summary from the order rows of one customer
customer_row(key, rows) ==
    [customer_unique_id |-> key,
     total_orders |-> Num(agg_count(rows, "order_id")),
     experienced_delay |-> agg_max(rows, "is_delayed"),
     experienced_cancellation |-> agg_max(rows, "is_canceled"),
     gave_negative_review |-> agg_max(rows, "has_negative_review"),
     had_negative_experience |-> agg_max(rows, "has_negative_experience"),
     total_spent |-> Num(agg_sum(rows, "price")),
     customer_state |-> agg_first(rows, "customer_state"),
     first_order_date |-> agg_min(rows, "order_purchase_timestamp"),
     customer_type |-> customer_type_of(Num(agg_count(rows, "order_id")))]

calculate_customer_level_metrics(df) ==
    LET keys == group_keys(df, "customer_unique_id")
    IN  Table(customer_summary_cols,
              [p \in DOMAIN keys |->
                  customer_row(keys[p], group_rows(df, "customer_unique_id", keys[p]))])

\* the columns the Metrics Engine indexes without testing for them
metrics_required ==
    {"customer_unique_id", "order_id", "is_delayed", "is_canceled", "has_negative_review",
     "has_negative_experience", "price", "customer_state", "order_purchase_timestamp"}

\* Rounded values are whole numbers of hundredths: round(p / q, 0) with an
\* exact tie going to the even neighbour, as Python and numpy round
round_half_even(p, q) ==
    LET whole == p \div q
        rest == p % q
    IN  IF 2 * rest > q THEN whole + 1
        ELSE IF 2 * rest < q THEN whole
        ELSE IF whole % 2 = 0 THEN whole ELSE whole + 1

\* round(p / q * 100, 2) in hundredths of a percent
round2_ratio(p, q) == round_half_even(p * 10000, q)

\* rate_percent that reports 100 percent for a zero denominator
rate_percent_full_on_zero(num, den) == IF den > 0 THEN round2_ratio(num, den) ELSE 10000

\* round((num / den) * 100 if den > 0 else 0, 2), in hundredths
rate_percent(num, den) == IF den > 0 THEN round2_ratio(num, den) ELSE 0

\* count_ge counting the rows greater than k only
count_ge_strict(cs, col, k) ==
    Cardinality({i \in DOMAIN cs.rows : cs.rows[i][col].t = "num" /\ cs.rows[i][col].n > k})

\* len(customer_summary[customer_summary[col] >= k])
count_ge(cs, col, k) ==
    Cardinality({i \in DOMAIN cs.rows : cs.rows[i][col].t = "num" /\ cs.rows[i][col].n >= k})

\* len(customer_summary[customer_summary[col] == v])
count_eq(cs, col, v) ==
    Cardinality({i \in DOMAIN cs.rows : cs.rows[i][col] = Num(v)})

\* the core funnel with retention counted from the customer type
calculate_core_funnel_metrics_retention_by_type(customer_summary) ==
    LET acquisition == Len(customer_summary.rows)
        activation == count_ge(customer_summary, "total_orders", 1)
        retention == Cardinality({i \in DOMAIN customer_summary.rows :
                         customer_summary.rows[i]["customer_type"] = Str(<<"R","e","p","e","a","t">>)})
        acquisition_to_activation_dropoff == acquisition - activation
        activation_to_retention_dropoff == activation - retention
    IN  [acquisition_customers |-> acquisition,
         activation_customers |-> activation,
         retention_customers |-> retention,
         activation_rate_percent |-> rate_percent(activation, acquisition),
         retention_rate_percent |-> rate_percent(retention, activation),
         acquisition_to_activation_dropoff |-> acquisition_to_activation_dropoff,
         activation_to_retention_dropoff |-> activation_to_retention_dropoff,
         activation_dropoff_rate_percent |->
             rate_percent(acquisition_to_activation_dropoff, acquisition),
         retention_dropoff_rate_percent |->
             rate_percent(activation_to_retention_dropoff, activation)]

calculate_core_funnel_metrics(customer_summary) ==
    LET acquisition == Len(customer_summary.rows)
        activation == count_ge(customer_summary, "total_orders", 1)
        retention == count_ge(customer_summary, "total_orders", 2)
        acquisition_to_activation_dropoff == acquisition - activation
        activation_to_retention_dropoff == activation - retention
    IN  [acquisition_customers |-> acquisition,
         activation_customers |-> activation,
         retention_customers |-> retention,
         activation_rate_percent |-> rate_percent(activation, acquisition),
         retention_rate_percent |-> rate_percent(retention, activation),
         acquisition_to_activation_dropoff |-> acquisition_to_activation_dropoff,
         activation_to_retention_dropoff |-> activation_to_retention_dropoff,
         activation_dropoff_rate_percent |->
             rate_percent(acquisition_to_activation_dropoff, acquisition),
         retention_dropoff_rate_percent |->
             rate_percent(activation_to_retention_dropoff, activation)]

\* the customers whose 'col' equals v, and those of them with two or more orders
group_size(cs, col, v) == count_eq(cs, col, v)
group_retained(cs, col, v) ==
    Cardinality({i \in DOMAIN cs.rows :
        cs.rows[i][col] = Num(v) /\ cs.rows[i]["total_orders"].n >= 2})

\* calculate_retention_impact with the two rates subtracted the other way
calculate_retention_impact_swapped(customer_summary, negative_experience_column) ==
    LET n0 == group_size(customer_summary, negative_experience_column, 0)
        r0 == group_retained(customer_summary, negative_experience_column, 0)
        n1 == group_size(customer_summary, negative_experience_column, 1)
        r1 == group_retained(customer_summary, negative_experience_column, 1)
        p == (IF n1 > 0 THEN r1 * (IF n0 > 0 THEN n0 ELSE 1) ELSE 0)
             - (IF n0 > 0 THEN r0 * (IF n1 > 0 THEN n1 ELSE 1) ELSE 0)
        q == (IF n0 > 0 THEN n0 ELSE 1) * (IF n1 > 0 THEN n1 ELSE 1)
    IN  [retention_without_negative_percent |-> rate_percent(r0, n0),
         retention_with_negative_percent |-> rate_percent(r1, n1),
         retention_impact_percent |-> round2_ratio(p, q)]

calculate_retention_impact(customer_summary, negative_experience_column) ==
    LET n0 == group_size(customer_summary, negative_experience_column, 0)
        r0 == group_retained(customer_summary, negative_experience_column, 0)
        n1 == group_size(customer_summary, negative_experience_column, 1)
        r1 == group_retained(customer_summary, negative_experience_column, 1)
        \* impact = r0/n0*100 - r1/n1*100 as one fraction, an empty group counting 0
        p == (IF n0 > 0 THEN r0 * (IF n1 > 0 THEN n1 ELSE 1) ELSE 0)
             - (IF n1 > 0 THEN r1 * (IF n0 > 0 THEN n0 ELSE 1) ELSE 0)
        q == (IF n0 > 0 THEN n0 ELSE 1) * (IF n1 > 0 THEN n1 ELSE 1)
    IN  [retention_without_negative_percent |-> rate_percent(r0, n0),
         retention_with_negative_percent |-> rate_percent(r1, n1),
         retention_impact_percent |-> round2_ratio(p, q)]

calculate_dropoff_reason_metrics(customer_summary) ==
    LET total_customers == Len(customer_summary.rows)
        delay_customers == count_eq(customer_summary, "experienced_delay", 1)
        cancellation_customers == count_eq(customer_summary, "experienced_cancellation", 1)
        negative_review_customers == count_eq(customer_summary, "gave_negative_review", 1)
        any_negative_customers == count_eq(customer_summary, "had_negative_experience", 1)
    IN  [customers_with_delays |-> delay_customers,
         customers_with_cancellations |-> cancellation_customers,
         customers_with_negative_reviews |-> negative_review_customers,
         customers_with_any_negative_experience |-> any_negative_customers,
         delay_rate_percent |-> rate_percent(delay_customers, total_customers),
         cancellation_rate_percent |-> rate_percent(cancellation_customers, total_customers),
         negative_review_rate_percent |->
             rate_percent(negative_review_customers, total_customers),
         any_negative_experience_rate_percent |->
             rate_percent(any_negative_customers, total_customers),
         delay_retention_impact |->
             calculate_retention_impact(customer_summary, "experienced_delay"),
         cancellation_retention_impact |->
             calculate_retention_impact(customer_summary, "experienced_cancellation"),
         review_retention_impact |->
             calculate_retention_impact(customer_summary, "gave_negative_review")]


\* Series.mean() of a group rounded to 2 decimals, in hundredths; NaN when the
\* group has no value
mean_round2(rows, col) ==
    IF agg_count(rows, col) = 0 THEN NaN
    ELSE Num(round_half_even(agg_sum(rows, col) * 100, agg_count(rows, col)))

\* one row of customer_summary.groupby(by).agg({...}).round(2)
segment_row(key, rows) ==
    [key |-> key,
     customer_count |-> agg_count(rows, "customer_unique_id"),
     avg_orders_per_customer |-> mean_round2(rows, "total_orders"),
     delay_rate |-> mean_round2(rows, "experienced_delay"),
     cancellation_rate |-> mean_round2(rows, "experienced_cancellation"),
     negative_review_rate |-> mean_round2(rows, "gave_negative_review"),
     avg_spending |-> mean_round2(rows, "total_spent")]

segment_groupby(customer_summary, by) ==
    LET keys == group_keys(customer_summary, by)
    IN  [p \in DOMAIN keys |-> segment_row(keys[p], group_rows(customer_summary, by, keys[p]))]

TopStates == 10

\* DataFrame.nlargest(n, 'customer_count'): largest first, ties in table order
nlargest(n, state_metrics) ==
    LET before(i) == Cardinality({j \in DOMAIN state_metrics :
                        \/ state_metrics[j].customer_count > state_metrics[i].customer_count
                        \/ /\ state_metrics[j].customer_count = state_metrics[i].customer_count
                           /\ j < i})
        m == IF Len(state_metrics) < n THEN Len(state_metrics) ELSE n
    IN  [p \in 1..m |-> state_metrics[CHOOSE i \in DOMAIN state_metrics : before(i) = p - 1]]

calculate_segment_metrics(customer_summary) ==
    LET state_metrics == segment_groupby(customer_summary, "customer_state")
    IN  [state_metrics |-> state_metrics,
         top_states |-> nlargest(TopStates, state_metrics),
         customer_type_metrics |-> segment_groupby(customer_summary, "customer_type")]

\* top_states.index[0] of the closing print raises IndexError on an empty frame
segment_metrics_raises(segment_metrics) == segment_metrics.top_states = <<>>


max3(a, b, c) == IF a >= b /\ a >= c THEN a ELSE IF b >= c THEN b ELSE c

\* the pick with ties going to the last listed signal
retention_killer_last_listed(dropoff_metrics) ==
    LET d == dropoff_metrics.delay_retention_impact.retention_impact_percent
        c == dropoff_metrics.cancellation_retention_impact.retention_impact_percent
        r == dropoff_metrics.review_retention_impact.retention_impact_percent
    IN  IF r = max3(d, c, r) THEN <<"N","e","g","a","t","i","v","e"," ","r","e","v","i","e","w","s">>
        ELSE IF c = max3(d, c, r) THEN <<"C","a","n","c","e","l","l","a","t","i","o","n","s">>
        ELSE <<"D","e","l","i","v","e","r","y"," ","d","e","l","a","y","s">>

\* generate_metrics_report, KEY INSIGHTS 2: the first of the three signals whose
\* impact equals the largest impact
retention_killer(dropoff_metrics) ==
    LET d == dropoff_metrics.delay_retention_impact.retention_impact_percent
        c == dropoff_metrics.cancellation_retention_impact.retention_impact_percent
        r == dropoff_metrics.review_retention_impact.retention_impact_percent
    IN  IF d = max3(d, c, r) THEN <<"D","e","l","i","v","e","r","y"," ","d","e","l","a","y","s">>
        ELSE IF c = max3(d, c, r) THEN <<"C","a","n","c","e","l","l","a","t","i","o","n","s">>
        ELSE <<"N","e","g","a","t","i","v","e"," ","r","e","v","i","e","w","s">>

\* the files save_funnel_metrics and generate_metrics_report write
METRICS_FILES ==
    {"outputs/metrics/funnel_metrics.json", "outputs/metrics/state_metrics.csv",
     "outputs/metrics/top_states_metrics.csv", "outputs/metrics/customer_type_metrics.csv",
     "outputs/metrics/monthly_metrics.csv", "outputs/metrics/customer_summary.csv",
     "outputs/funnel_analysis_report.md"}

NoSummary == Table(customer_summary_cols, <<>>)

\* before anything is computed the results hold the values of an empty summary
metrics_idle ==
    [status |-> "idle",
     customer_summary |-> NoTable,
     core_metrics |-> calculate_core_funnel_metrics(NoSummary),
     dropoff_metrics |-> calculate_dropoff_reason_metrics(NoSummary),
     segment_metrics |-> calculate_segment_metrics(NoSummary),
     retention_killer |-> <<>>]

\* load_engineered_data(): None when the file is not found
load_engineered_data(dsk) == read_csv(dsk[ENGINEERED_FILE])

\* 05_funnel_analysis.py main(), the whole script.  The monthly table is
\* written but its content is not carried.
RunMetrics ==
    /\ IF ~disk[ENGINEERED_FILE].exists
       THEN /\ metrics' = [metrics_idle EXCEPT !.status = "aborted"]
            /\ outputs' = outputs
       ELSE \E df \in {load_engineered_data(disk)} :
                IF ~(metrics_required \subseteq df.cols)
                THEN /\ metrics' = [metrics_idle EXCEPT !.status = "crashed"]
                     /\ outputs' = outputs
                ELSE \E customer_summary \in {calculate_customer_level_metrics(df)} :
                     \E core \in {calculate_core_funnel_metrics(customer_summary)} :
                     \E dropoff \in {calculate_dropoff_reason_metrics(customer_summary)} :
                     \E segment \in {calculate_segment_metrics(customer_summary)} :
                     \E m \in {[status |-> "done",
                                customer_summary |-> customer_summary,
                                core_metrics |-> core,
                                dropoff_metrics |-> dropoff,
                                segment_metrics |-> segment,
                                retention_killer |-> <<>>]} :
                         IF \/ segment_metrics_raises(segment)
                            \/ to_datetime_raises(df, "order_purchase_timestamp")
                         THEN /\ metrics' = [m EXCEPT !.status = "crashed"]
                              /\ outputs' = outputs
                         ELSE /\ metrics' = [m EXCEPT !.retention_killer =
                                                retention_killer(dropoff)]
                              /\ outputs' = outputs \cup METRICS_FILES
    /\ UNCHANGED <<disk, cleaner, merger, feature>>


(***************************************************************************)
(* Input files.  A file holds CSV fields: a missing value is the empty     *)
(* text, a date is its ISO text, a number its decimal text.  Dates count   *)
(* hours, so that a timestamp has a day (n \div 24) and an hour (n % 24).  *)
(***************************************************************************)
SeqsUpTo(S, n) == UNION {[1..k -> S] : k \in 0..n}

EmptyField == Str(<<>>)

MqlIds == {Str(<<"L","1">>), Str(<<"m","2">>)}

mql_cols == {"mql_id", "first_contact_date", "landing_page_id", "origin"}
deals_cols ==
    {"mql_id", "sdr_id", "sr_id", "won_date", "business_segment", "has_company",
     "declared_monthly_revenue", "declared_product_catalog_size"}

\* raw lead rows that vary in the join key and the contact date
merge_mql_cols == {"mql_id", "first_contact_date", "origin"}

MergeLeadRows ==
    [mql_id : MqlIds,
     first_contact_date : {EmptyField, DateTxt(48)},
     origin : {Str(<<"o","r","g","a","n","i","c","_","s","e","a","r","c","h">>)}]

\* raw deal rows that vary in the join key and in whether sdr_id, sr_id and
\* won_date are present
merge_deals_cols ==
    {"mql_id", "sdr_id", "sr_id", "won_date",
     "declared_monthly_revenue", "declared_product_catalog_size"}

MergeDealRows ==
    {[mql_id |-> id, sdr_id |-> p[1], sr_id |-> p[2], won_date |-> p[3],
      declared_monthly_revenue |-> NumTxt(15000),
      declared_product_catalog_size |-> NumTxt(50)] :
        id \in MqlIds,
        p \in {<<Str(<<"s","d","r","1">>), Str(<<"s","r","1">>), DateTxt(288)>>,
               <<EmptyField, EmptyField, EmptyField>>}}

\* one deal of lead L1 whose declared revenue and catalog size vary around
\* the thresholds of the two size ladders
SizeDealRows ==
    [mql_id : {Str(<<"L","1">>)}, sdr_id : {Str(<<"s","d","r","1">>)},
     sr_id : {Str(<<"s","r","1">>)}, won_date : {DateTxt(288)},
     declared_monthly_revenue :
         {EmptyField} \cup {NumTxt(k) : k \in {0 - 5, 0, 1, 1000, 1001, 10000, 10001,
                                             15000, 100000, 100001}},
     declared_product_catalog_size :
         {EmptyField} \cup {NumTxt(k) : k \in {0, 10, 11, 50, 100, 101, 1000, 1001}}]

\* the pairs of raw lead rows and raw deal rows the Merger's runs start from
MergeInputs ==
    (SeqsUpTo(MergeLeadRows, MaxLeads) \X SeqsUpTo(MergeDealRows, MaxDeals))
    \cup {<<(<<[mql_id |-> Str(<<"L","1">>), first_contact_date |-> DateTxt(48),
                origin |-> Str(<<"p","a","i","d","_","s","e","a","r","c","h">>)]>>),
             (<<d>>)>> : d \in SizeDealRows}

\* raw lead rows that vary in the texts the Cleaner normalises
CleanLeadRows ==
    [mql_id : MqlIds,
     first_contact_date : {DateTxt(48), Str(<<"s","o","o","n">>)},
     landing_page_id : {Str(<<"l","p","1">>)},
     origin : {EmptyField, Str(<<"P","a","i","d">>), Str(<<"p","a","i","d">>),
               Str(<<" ">>), Str(<<"N","A","N">>)}]

\* raw deal rows that vary in the texts and numbers the Cleaner normalises
CleanDealRows ==
    {[mql_id |-> Str(<<"L","1">>), sdr_id |-> b[1], sr_id |-> b[1], won_date |-> DateTxt(288),
      business_segment |-> seg, has_company |-> b[2],
      declared_monthly_revenue |-> rev, declared_product_catalog_size |-> b[3]] :
        seg \in {EmptyField, Str(<<"P","e","t">>), Str(<<"p","e","t">>)},
        rev \in {EmptyField, NumTxt(0 - 2000), NumTxt(4000)},
        b \in {<<EmptyField, EmptyField, EmptyField>>,
               <<Str(<<"s","d","r","1">>), NumTxt(1), NumTxt(50)>>}}

\* The order-grain master table, one row per order, that the Feature Engine
\* works on.  A customer has 0 to 3 orders (0: one row without order_id) or is
\* absent; the profile is that of the customer's first order, the others are
\* clean: delivered a day early, reviewed 5.
order_cols ==
    {"order_id", "customer_unique_id", "order_status", "order_purchase_timestamp",
     "order_delivered_customer_date", "order_estimated_delivery_date", "review_score",
     "price", "customer_state"}

DigitChars == <<"0", "1", "2", "3", "4", "5", "6", "7", "8", "9">>

RECURSIVE digits(_)
digits(i) ==
    IF i < 10 THEN <<DigitChars[i + 1]>>
    ELSE digits(i \div 10) \o <<DigitChars[(i % 10) + 1]>>

customer_id(i) == Str(<<"c">> \o digits(i))

order_row(cust, k, profile, state) ==
    [order_id |-> IF k = 0 THEN EmptyField
                  ELSE Str(<<"o">> \o digits(cust) \o <<"_">> \o digits(k)),
     customer_unique_id |-> customer_id(cust),
     order_status |-> CASE profile = "none" -> EmptyField
                        [] profile = "canceled" -> Str(S_canceled)
                        [] OTHER -> Str(S_delivered),
     order_purchase_timestamp |-> DateTxt(24 * k + 9),
     order_delivered_customer_date |->
         CASE profile \in {"none", "canceled"} -> EmptyField
           [] profile \in {"delayed", "awful"} -> DateTxt(510)
           [] OTHER -> DateTxt(456),
     order_estimated_delivery_date |-> DateTxt(480),
     review_score |-> CASE profile \in {"none", "canceled"} -> EmptyField
                        [] profile \in {"unhappy", "awful"} -> NumTxt(1)
                        [] OTHER -> NumTxt(5),
     price |-> NumTxt(120),
     customer_state |-> state]

\* the rows of one customer: choice = <<number of orders, profile>>
customer_orders(cust, choice, state) ==
    IF choice[2] = "absent" THEN <<>>
    ELSE IF choice[1] = 0 THEN <<order_row(cust, 0, "none", state)>>
    ELSE [k \in 1..choice[1] |->
            order_row(cust, k, IF k = 1 THEN choice[2] ELSE "clean", state)]

RECURSIVE orders_of(_, _, _)
orders_of(n, choices, states) ==
    IF n = 0 THEN <<>>
    ELSE orders_of(n - 1, choices, states) \o customer_orders(n, choices[n], states[n])

CustomerChoices(i) ==
    IF i = 1
    THEN {<<0, "absent">>, <<0, "none">>}
         \cup ({1, 2, 3} \X {"clean", "delayed", "canceled", "unhappy"})
    ELSE {<<0, "absent">>, <<0, "none">>, <<1, "clean">>, <<1, "delayed">>,
          <<2, "delayed">>, <<3, "clean">>}

state_of(n) == [i \in 1..n |-> IF i % 2 = 1 THEN Str(<<"S","P">>) ELSE Str(<<"R","J">>)]
no_state(n) == [i \in 1..n |-> EmptyField]

\* small order tables with a state for every customer
SmallOrderMasters ==
    {Table(order_cols, orders_of(MaxCustomers, ch, state_of(MaxCustomers))) :
        ch \in {f \in [1..MaxCustomers -> CustomerChoices(1)] :
                    \A i \in 1..MaxCustomers : f[i] \in CustomerChoices(i)}}

\* small order tables in which no customer has a state
StatelessOrderMasters ==
    {Table(order_cols, orders_of(MaxCustomers, ch, no_state(MaxCustomers))) :
        ch \in [1..MaxCustomers -> {<<1, "clean">>, <<2, "delayed">>}]}

\* large order tables: MaxCohort customers without a delay, the first of them
\* with two orders, and MaxCohort + 1 customers with a delay, 'back' of them
\* with two orders; the customers with two orders come first
cohort_rows(back) ==
    customer_orders(1, <<2, "clean">>, state_of(1)[1])
    \o (IF back = 1 THEN customer_orders(MaxCohort + 1, <<2, "delayed">>, state_of(1)[1])
        ELSE <<>>)
    \o [j \in 1..(MaxCohort - 1) |-> order_row(j + 1, 1, "clean", state_of(1)[1])]
    \o [j \in 1..(MaxCohort + 1 - back) |->
            order_row(MaxCohort + back + j, 1, "delayed", state_of(2)[2])]

CohortOrderMasters == {Table(order_cols, cohort_rows(back)) : back \in {0, 1}}

\* order tables of one order whose delivery date, estimate and review score
\* vary: delivered from 2 days early to 31 days late around the estimate of
\* hour 480, missing or unreadable, and scores 0 to 5 or missing
SingleOrderMasters ==
    {Table(order_cols,
           <<[order_row(1, 1, "clean", Str(<<"S","P">>)) EXCEPT
                 !.order_delivered_customer_date = v[1],
                 !.order_estimated_delivery_date = v[2],
                 !.review_score = v[3]]>>) :
        v \in (({EmptyField, Str(<<"s","o","o","n">>)}
                   \cup {DateTxt(h) : h \in {432, 479, 480, 485, 504, 648, 672, 720,
                                             1200, 1223, 1224}})
               \X {EmptyField, DateTxt(480)} \X {NumTxt(5)})
              \cup ({DateTxt(456)} \X {DateTxt(480)}
                    \X ({EmptyField} \cup {NumTxt(k) : k \in 0..4}))}

\* order tables of one customer with 0 to 5 orders, the first of them clean
\* or both late and badly reviewed, with or without its order_id, followed by
\* 0 to 2 order rows whose customer_unique_id is missing
AnonymousOrderMasters ==
    {Table(order_cols,
           [k \in 1..v[1] |->
                 IF k = 1
                 THEN [order_row(1, k, v[5], Str(<<"S","P">>)) EXCEPT
                          !.order_id = IF v[4] THEN EmptyField ELSE @]
                 ELSE order_row(1, k, "clean", Str(<<"S","P">>))]
           \o [j \in 1..v[2] |->
                 [order_row(2, j, v[3], Str(<<"R","J">>)) EXCEPT
                     !.customer_unique_id = EmptyField]]) :
        v \in (0..5) \X (0..2) \X {"clean", "unhappy"} \X {FALSE, TRUE}
              \X {"clean", "awful"}}

FixedLeadFile == Table(mql_cols, <<>>)
FixedDealFile == Table(deals_cols, <<>>)

EmptyDisk == [f \in FileNames |-> Missing]

InitIdle ==
    /\ cleaner = cleaner_idle
    /\ merger = merger_idle
    /\ feature = feature_idle
    /\ metrics = metrics_idle
    /\ outputs = {}

(***************************************************************************)
(* SpecClean: the Cleaner on raw files; one raw table varies at a time,    *)
(* the Cleaner treats the two tables independently.                        *)
(***************************************************************************)
InitClean ==
    /\ InitIdle
    /\ \/ \E rows \in SeqsUpTo(CleanLeadRows, MaxLeads) :
            disk = [EmptyDisk EXCEPT ![RAW_MQL] = Table(mql_cols, rows),
                                     ![RAW_DEALS] = FixedDealFile]
       \/ \E rows \in SeqsUpTo(CleanDealRows, MaxDeals) :
            disk = [EmptyDisk EXCEPT ![RAW_MQL] = FixedLeadFile,
                                     ![RAW_DEALS] = Table(deals_cols, rows)]

NextClean == RunCleaner \/ Reclean

SpecClean == InitClean /\ [][NextClean]_vars

(***************************************************************************)
(* SpecMerge: the Merger on the cleaned files of any pair of raw lead and   *)
(* deal files; it starts where the Cleaner has run.                        *)
(***************************************************************************)
InitMerge ==
    /\ merger = merger_idle
    /\ feature = feature_idle
    /\ metrics = metrics_idle
    /\ outputs = {}
    /\ \E input \in MergeInputs :
       \E raw \in {[EmptyDisk EXCEPT ![RAW_MQL] = Table(merge_mql_cols, input[1]),
                                     ![RAW_DEALS] = Table(merge_deals_cols, input[2])]} :
       \E c \in {cleaner_result(read_csv(raw[RAW_DEALS]), read_csv(raw[RAW_MQL]), 1)} :
            /\ cleaner = c
            /\ disk = save_cleaned(raw, c)

NextMerge == RunMerger

SpecMerge == InitMerge /\ [][NextMerge]_vars

(***************************************************************************)
(* SpecOrders: the Feature Engine and the Metrics Engine on an order-grain *)
(* master table, which a step outside this repository has put in place.    *)
(***************************************************************************)
InitOrders ==
    /\ InitIdle
    /\ \E om \in SmallOrderMasters \cup StatelessOrderMasters \cup CohortOrderMasters
                  \cup SingleOrderMasters \cup AnonymousOrderMasters :
            disk = [EmptyDisk EXCEPT ![MASTER_FILE] = om]

NextOrders == RunFeatureEngine \/ RunMetrics

SpecOrders == InitOrders /\ [][NextOrders]_vars

(***************************************************************************)
(* Spec: the four scripts of the repository, run in any order and any      *)
(* number of times, on raw files that are missing or hold at most one row. *)
(***************************************************************************)
RawLeadFiles == {Missing} \cup {Table(merge_mql_cols, rows) : rows \in SeqsUpTo(MergeLeadRows, 1)}
RawDealFiles == {Missing} \cup {Table(merge_deals_cols, rows) : rows \in SeqsUpTo(MergeDealRows, 1)}

Init ==
    /\ InitIdle
    /\ \E leads \in RawLeadFiles : \E deals \in RawDealFiles :
            disk = [EmptyDisk EXCEPT ![RAW_MQL] = leads, ![RAW_DEALS] = deals]

Next == RunCleaner \/ RunMerger \/ RunFeatureEngine \/ RunMetrics

Spec == Init /\ [][Next]_vars

(***************************************************************************)
(* Properties of the Merger (SpecMerge).                                   *)
(***************************************************************************)
StageCols ==
    <<"stage_1_lead_generated", "stage_2_first_contact", "stage_3_sales_qualified",
      "stage_4_consultation", "stage_5_deal_closed">>

\* number of master rows whose flag 'col' is 1
Ones(df, col) == Cardinality({i \in DOMAIN df.rows : df.rows[i][col] = Num(1)})

StageCount(k) == Ones(merger.master_df, StageCols[k])

StageFlags(r) == [k \in 1..5 |-> r[StageCols[k]].n]

\* the lead of master row r has no deal in the deals file the Merger read
Unmatched(r) ==
    \A j \in DOMAIN disk[CLEANED_DEALS_FILE].rows :
        csv_parse(disk[CLEANED_DEALS_FILE].rows[j]["mql_id"]) # r["mql_id"]

MasterRows == merger.master_df.rows

\* C1 as stated: in every Merger run the stage counts are non-increasing,
\* stage_5 <= stage_4 <= stage_3 <= stage_2 <= stage_1.
C1_StageCountsMonotonic ==
    merger.status = "done" =>
        \A k \in 2..5 : StageCount(k) <= StageCount(k - 1)

\* C1 amended: the Merger detects but does not enforce the order of the
\* stage counts: no stage count exceeds the stage_1 count, and in every run
\* that reports no logic error the counts are non-increasing,
\* stage_5 <= stage_4 <= stage_3 <= stage_2 <= stage_1.
C1_MonotonicOrFlagged ==
    merger.status = "done" =>
        /\ \A k \in 2..5 : StageCount(k) <= StageCount(1)
        /\ merger.logic_errors = <<>> =>
               \A k \in 2..5 : StageCount(k) <= StageCount(k - 1)

\* a run with a closed deal whose counts are non-increasing and not flagged
C1_Witness ==
    /\ merger.status = "done"
    /\ merger.logic_errors = <<>>
    /\ StageCount(5) >= 1
    /\ StageCount(2) > StageCount(3)

\* C2 as stated: after the left join the master has one row per lead row, in the
\* lead table's order, and a lead without a deal has every deal field missing.
C2_EveryLeadOnce ==
    merger.status = "done" =>
        \A mql_df \in {load_cleaned_mql(disk)} :
            /\ Len(MasterRows) = Len(mql_df.rows)
            /\ \A i \in DOMAIN MasterRows :
                   /\ i \in DOMAIN mql_df.rows
                   /\ \A c \in mql_df.cols : MasterRows[i][c] = mql_df.rows[i][c]
                   /\ Unmatched(MasterRows[i]) =>
                          \A c \in disk[CLEANED_DEALS_FILE].cols \ {"mql_id"} :
                              isna(MasterRows[i][c])

\* C3 as stated: a lead without a deal has flags (1,0,0,0,0) and is not
\* converted; a lead with contact date, both rep ids and won date has (1,1,1,1,1).
FullyCompleted(r) ==
    /\ ~isna(r["first_contact_date"])
    /\ ~isna(r["sdr_id"])
    /\ ~isna(r["sr_id"])
    /\ ~isna(r["won_date"])

C3_BoundaryFlags ==
    merger.status = "done" =>
        \A i \in DOMAIN MasterRows :
            /\ Unmatched(MasterRows[i]) =>
                   /\ StageFlags(MasterRows[i]) = <<1, 0, 0, 0, 0>>
                   /\ MasterRows[i]["is_converted"] = Num(0)
            /\ FullyCompleted(MasterRows[i]) =>
                   /\ StageFlags(MasterRows[i]) = <<1, 1, 1, 1, 1>>
                   /\ MasterRows[i]["is_converted"] = Num(1)

\* C3 amended: a lead without a deal has stage_1 = 1, stage_2 = 1 exactly when
\* its first-contact date is present, stage_3 to stage_5 = 0 and is not
\* converted; a fully-completed lead has (1,1,1,1,1) and is converted.
C3_BoundaryFlagsAmended ==
    merger.status = "done" =>
        \A i \in DOMAIN MasterRows :
            /\ Unmatched(MasterRows[i]) =>
                   /\ StageFlags(MasterRows[i]) =
                          <<1, IF isna(MasterRows[i]["first_contact_date"]) THEN 0 ELSE 1,
                            0, 0, 0>>
                   /\ MasterRows[i]["is_converted"] = Num(0)
            /\ FullyCompleted(MasterRows[i]) =>
                   /\ StageFlags(MasterRows[i]) = <<1, 1, 1, 1, 1>>
                   /\ MasterRows[i]["is_converted"] = Num(1)

\* a master with a contacted lead that has no deal and a fully-completed lead
C3_Witness ==
    /\ merger.status = "done"
    /\ \E i \in DOMAIN MasterRows :
           Unmatched(MasterRows[i]) /\ ~isna(MasterRows[i]["first_contact_date"])
    /\ \E i \in DOMAIN MasterRows : FullyCompleted(MasterRows[i])

StageErrorName(k) ==
    CASE k = 2 -> "Stage 2 > Stage 1"
      [] k = 3 -> "Stage 3 > Stage 2"
      [] k = 4 -> "Stage 4 > Stage 3"
      [] k = 5 -> "Stage 5 > Stage 4"

\* C8: the Merger reports exactly the adjacent stage pairs whose later count
\* exceeds the earlier one (none reported means 'validated'), and a run that
\* reports some still completes and persists its master table.
C8_LogicErrorsExactNonFatal ==
    merger.status = "done" =>
        /\ \A k \in 2..5 :
               (\E e \in DOMAIN merger.logic_errors :
                    merger.logic_errors[e] = StageErrorName(k))
               <=> StageCount(k) > StageCount(k - 1)
        /\ Len(merger.logic_errors) = Cardinality({k \in 2..5 : StageCount(k) > StageCount(k - 1)})
        /\ disk[MASTER_FILE].exists
        /\ read_csv(disk[MASTER_FILE]).rows = MapCells(merger.master_df, to_datetime_text).rows

\* a run that reported a logic error and persisted its master table
C8_Witness ==
    /\ merger.status = "done"
    /\ Len(merger.logic_errors) >= 1
    /\ disk[MASTER_FILE].exists
    /\ Len(disk[MASTER_FILE].rows) = Len(MasterRows)

(***************************************************************************)
(* Properties of the Metrics Engine (SpecOrders).  Rates are hundredths of *)
(* a percent: 33.33 is 3333 and 100.0 is 10000.                            *)
(***************************************************************************)
\* the Metrics Engine has computed its customer summary and the metrics of it
MetricsComputed == metrics.customer_summary.exists

\* the customers of an order table and the number of orders of each
CustomersOf(df) ==
    {df.rows[i]["customer_unique_id"] :
        i \in {j \in DOMAIN df.rows : ~isna(df.rows[j]["customer_unique_id"])}}

OrdersOf(df, c) ==
    Cardinality({i \in DOMAIN df.rows :
        df.rows[i]["customer_unique_id"] = c /\ ~isna(df.rows[i]["order_id"])})

\* h is p / q * 100 rounded to 2 decimals (q > 0): no hundredth is nearer
RoundedPercent(h, p, q) ==
    /\ 2 * (h * q - 10000 * p) <= q
    /\ 2 * (10000 * p - h * q) <= q

\* C4: acquisition is the number of distinct customers, activation the number
\* with one or more orders, retention the number with two or more, and the
\* retention rate is retention / activation * 100 rounded to 2 decimals;
\* customers with 1, 1 and 3 orders give 3, 3, 1 and 33.33.
C4_CoreFunnelMetrics ==
    MetricsComputed =>
        \A df \in {load_engineered_data(disk)} :
        \A customers \in {CustomersOf(df)} :
        \A active \in {{c \in customers : OrdersOf(df, c) >= 1}} :
        \A retained \in {{c \in customers : OrdersOf(df, c) >= 2}} :
            /\ Len(metrics.customer_summary.rows) = Cardinality(customers)
            /\ metrics.core_metrics.acquisition_customers = Cardinality(customers)
            /\ metrics.core_metrics.activation_customers = Cardinality(active)
            /\ metrics.core_metrics.retention_customers = Cardinality(retained)
            /\ IF active = {}
               THEN metrics.core_metrics.retention_rate_percent = 0
               ELSE RoundedPercent(metrics.core_metrics.retention_rate_percent,
                                   Cardinality(retained), Cardinality(active))
            /\ (/\ Cardinality(customers) = 3
                /\ Cardinality({c \in customers : OrdersOf(df, c) = 1}) = 2
                /\ Cardinality({c \in customers : OrdersOf(df, c) = 3}) = 1)
               => /\ metrics.core_metrics.acquisition_customers = 3
                  /\ metrics.core_metrics.activation_customers = 3
                  /\ metrics.core_metrics.retention_customers = 1
                  /\ metrics.core_metrics.retention_rate_percent = 3333

\* a completed run on customers with 1, 1 and 3 orders
C4_Witness ==
    /\ metrics.status = "done"
    /\ Len(metrics.customer_summary.rows) = 3
    /\ Cardinality({i \in 1..3 : metrics.customer_summary.rows[i]["total_orders"] = Num(1)}) = 2
    /\ Cardinality({i \in 1..3 : metrics.customer_summary.rows[i]["total_orders"] = Num(3)}) = 1
    /\ metrics.core_metrics.retention_rate_percent = 3333

SignalCols == {"experienced_delay", "experienced_cancellation", "gave_negative_review"}

ImpactOf(sc) ==
    CASE sc = "experienced_delay" -> metrics.dropoff_metrics.delay_retention_impact
      [] sc = "experienced_cancellation" ->
             metrics.dropoff_metrics.cancellation_retention_impact
      [] sc = "gave_negative_review" -> metrics.dropoff_metrics.review_retention_impact

\* the customers whose signal column is v: how many, and how many of them with
\* two or more orders
Cohort(sc, v) ==
    LET rows == metrics.customer_summary.rows
        members == {i \in DOMAIN rows : rows[i][sc] = Num(v)}
    IN  [size |-> Cardinality(members),
         retained |-> Cardinality({i \in members : rows[i]["total_orders"].n >= 2})]

\* the retention rate of a cohort as a fraction num / den, 0 for an empty cohort
RateNum(g) == IF g.size = 0 THEN 0 ELSE g.retained
RateDen(g) == IF g.size = 0 THEN 1 ELSE g.size

\* customers A (no delay, 2 orders) and B (delayed, 1 order) and nobody else
ScenarioAB ==
    LET rows == metrics.customer_summary.rows
    IN  /\ Len(rows) = 2
        /\ \E a \in 1..2 : rows[a]["experienced_delay"] = Num(0)
                           /\ rows[a]["total_orders"] = Num(2)
        /\ \E b \in 1..2 : rows[b]["experienced_delay"] = Num(1)
                           /\ rows[b]["total_orders"] = Num(1)

\* C5 as stated: the impact is the retention rate without the signal minus the
\* rate with it (to 2 decimals) and is positive whenever the customers with the
\* signal are retained at a lower rate; A and B give a delay impact of 100.0.
C5_ImpactPositiveWhenLower ==
    MetricsComputed =>
        /\ \A sc \in SignalCols :
           \A g0 \in {Cohort(sc, 0)} : \A g1 \in {Cohort(sc, 1)} :
               /\ RoundedPercent(ImpactOf(sc).retention_impact_percent,
                                 RateNum(g0) * RateDen(g1) - RateNum(g1) * RateDen(g0),
                                 RateDen(g0) * RateDen(g1))
               /\ RateNum(g1) * RateDen(g0) < RateNum(g0) * RateDen(g1)
                      => ImpactOf(sc).retention_impact_percent > 0
        /\ ScenarioAB => ImpactOf("experienced_delay").retention_impact_percent = 10000

\* C5 amended: the returned rates are the two retention rates rounded to 2
\* decimals and the impact is their exact difference rounded to 2 decimals, so
\* it is never negative when the customers with the signal are retained at a
\* lower rate and is positive when the rates differ by more than 0.005
\* points; A and B give a delay impact of 100.0.
C5_ImpactRoundedDifference ==
    MetricsComputed =>
        /\ \A sc \in SignalCols :
           \A g0 \in {Cohort(sc, 0)} : \A g1 \in {Cohort(sc, 1)} :
           \A p \in {RateNum(g0) * RateDen(g1) - RateNum(g1) * RateDen(g0)} :
           \A q \in {RateDen(g0) * RateDen(g1)} :
               /\ RoundedPercent(ImpactOf(sc).retention_without_negative_percent,
                                 RateNum(g0), RateDen(g0))
               /\ RoundedPercent(ImpactOf(sc).retention_with_negative_percent,
                                 RateNum(g1), RateDen(g1))
               /\ RoundedPercent(ImpactOf(sc).retention_impact_percent, p, q)
               /\ p > 0 => ImpactOf(sc).retention_impact_percent >= 0
               /\ 20000 * p > q => ImpactOf(sc).retention_impact_percent > 0
        /\ ScenarioAB => ImpactOf("experienced_delay").retention_impact_percent = 10000

\* a completed run on customers A and B with a delay impact of 100.0
C5_Witness ==
    /\ metrics.status = "done"
    /\ ScenarioAB
    /\ ImpactOf("experienced_delay").retention_impact_percent = 10000

\* a completed run in which the delayed customers are retained at a lower rate
\* and the rounded impact is 0.0
C5_RoundedAway ==
    /\ metrics.status = "done"
    /\ \E g0 \in {Cohort("experienced_delay", 0)} : \E g1 \in {Cohort("experienced_delay", 1)} :
           RateNum(g1) * RateDen(g0) < RateNum(g0) * RateDen(g1)
    /\ ImpactOf("experienced_delay").retention_impact_percent = 0

(***************************************************************************)
(* Properties of the Cleaner (SpecClean).                                  *)
(***************************************************************************)
\* C6 as stated: applying the Cleaner's steps to the tables it produced
\* removes no further duplicate row and fills no further value.
C6_CleanerFixedPoint ==
    (cleaner.status = "done" /\ cleaner.passes = 2) =>
        /\ cleaner.deals_removed = 0
        /\ cleaner.mql_removed = 0
        /\ cleaner.deals_filled = 0
        /\ cleaner.mql_filled = 0

\* the table a stage holds in memory and the table the next stage loads from
\* the file the stage wrote, its date column parsed again
RECURSIVE parse_dates(_, _)
parse_dates(tbl, date_cols) ==
    IF date_cols = <<>> THEN tbl
    ELSE parse_dates(map_col(tbl, Head(date_cols), to_datetime_coerce), Tail(date_cols))

SameAfterReload(df, file, date_cols) ==
    \A loaded \in {parse_dates(read_csv(file), date_cols)} :
        /\ file.exists
        /\ Len(loaded.rows) = Len(df.rows)
        /\ loaded.cols = df.cols
        /\ \A i \in DOMAIN df.rows : \A c \in df.cols :
               i \in DOMAIN loaded.rows /\ loaded.rows[i][c] = df.rows[i][c]

\* C7 as stated: every intermediate table a stage persisted reloads with the
\* same number of rows and, the date columns parsed again, the same value in
\* every cell.
C7_CsvRoundTrip ==
    /\ (cleaner.status = "done" /\ cleaner.passes = 1) =>
           /\ SameAfterReload(cleaner.mql_clean, disk[CLEANED_MQL_FILE],
                              <<"first_contact_date">>)
           /\ SameAfterReload(cleaner.deals_clean, disk[CLEANED_DEALS_FILE], <<"won_date">>)
    /\ merger.status = "done" =>
           SameAfterReload(merger.master_df, disk[MASTER_FILE],
                           <<"first_contact_date", "won_date">>)
    /\ feature.status = "done" =>
           SameAfterReload(feature.df, disk[ENGINEERED_FILE],
                           <<"order_purchase_timestamp", "order_delivered_customer_date",
                             "order_estimated_delivery_date">>)

(***************************************************************************)
(* Properties of the pipeline (Spec).                                      *)
(***************************************************************************)
\* C9: a stage that runs while its input table is missing ends without
\* writing: the Merger leaves olist_master.csv as it was, the Feature Engine
\* leaves olist_master_engineered.csv as it was, the Metrics Engine writes no
\* metrics file and no report.
C9_MissingInputWritesNothing ==
    [][/\ (merger' # merger
           /\ (~disk[CLEANED_DEALS_FILE].exists \/ ~disk[CLEANED_MQL_FILE].exists))
          => /\ merger'.status = "aborted"
             /\ disk' = disk
             /\ outputs' = outputs
       /\ (feature' # feature /\ ~disk[MASTER_FILE].exists)
          => /\ feature'.status = "aborted"
             /\ disk' = disk
             /\ outputs' = outputs
       /\ (metrics' # metrics /\ ~disk[ENGINEERED_FILE].exists)
          => /\ metrics'.status = "aborted"
             /\ disk' = disk
             /\ outputs' = outputs]_vars

\* all three stages have run without their input and nothing was written
C9_Witness ==
    /\ merger.status = "aborted"
    /\ feature.status = "aborted"
    /\ metrics.status = "aborted"
    /\ ~disk[MASTER_FILE].exists
    /\ ~disk[ENGINEERED_FILE].exists
    /\ outputs = {}

\* C10 as stated: whenever a stage has completed and persisted its output, the
\* next stage, run on that output, runs to completion: the Feature Engine
\* after the Merger, the Metrics Engine after the Feature Engine.
C10_NextStageCompletes ==
    [][/\ (merger.status = "done" /\ feature' # feature) => feature'.status = "done"
       /\ (feature.status = "done" /\ metrics' # metrics) => metrics'.status = "done"]_vars

(***************************************************************************)
(* Properties of the Cleaner's output tables (SpecClean).                  *)
(***************************************************************************)
\* C11 as stated: after the Cleaner no two rows of the cleaned leads table
\* have the same mql_id.
C11_LeadIdsUnique ==
    (cleaner.status = "done" /\ cleaner.passes = 1) =>
        \A i, j \in DOMAIN cleaner.mql_clean.rows :
            i # j => cleaner.mql_clean.rows[i]["mql_id"] # cleaner.mql_clean.rows[j]["mql_id"]

(***************************************************************************)
(* Properties of the master table's derived columns (SpecMerge).           *)
(***************************************************************************)
\* the raw files of the scenario: one lead L1 from 'organic_search' whose
\* other field is empty, and a deals table without rows
ScenarioOrganicLead ==
    /\ disk[RAW_MQL] = Table(merge_mql_cols,
            <<[mql_id |-> Str(<<"L","1">>), first_contact_date |-> EmptyField,
               origin |-> Str(<<"o","r","g","a","n","i","c","_","s","e","a","r","c","h">>)]>>)
    /\ disk[RAW_DEALS].exists
    /\ disk[RAW_DEALS].rows = <<>>

\* C12: merging the single lead L1 of origin 'organic_search' with an empty
\* deals table gives a master of exactly one row with stage flags (1,0,0,0,0)
\* and lead_source_category 'organic', in memory and in the master file.
C12_OrganicLeadScenario ==
    (ScenarioOrganicLead /\ merger.status # "idle") =>
        /\ merger.status = "done"
        /\ Len(MasterRows) = 1
        /\ MasterRows[1]["mql_id"] = Str(<<"L","1">>)
        /\ StageFlags(MasterRows[1]) = <<1, 0, 0, 0, 0>>
        /\ MasterRows[1]["lead_source_category"] = Str(<<"o","r","g","a","n","i","c">>)
        /\ Len(disk[MASTER_FILE].rows) = 1
        /\ disk[MASTER_FILE].rows[1]["lead_source_category"] = Str(<<"o","r","g","a","n","i","c">>)

\* the scenario's Merger run has happened
C12_Witness == ScenarioOrganicLead /\ merger.status = "done" /\ Len(MasterRows) = 1

\* C13: business_size_category follows the revenue ladder: missing is
\* 'unknown', 0 is 'startup', (0,1000] is 'micro', (1000,10000] is 'small',
\* (10000,100000] is 'medium', above 100000 is 'large'.
C13_BusinessSizeLadder ==
    merger.status = "done" =>
        \A i \in DOMAIN MasterRows :
            \A rev \in {MasterRows[i]["declared_monthly_revenue"]} :
            \A size \in {MasterRows[i]["business_size_category"]} :
                /\ isna(rev) => size = Str(<<"u","n","k","n","o","w","n">>)
                /\ (~isna(rev) /\ rev.n = 0) => size = Str(<<"s","t","a","r","t","u","p">>)
                /\ (~isna(rev) /\ 0 < rev.n /\ rev.n <= 1000) => size = Str(<<"m","i","c","r","o">>)
                /\ (~isna(rev) /\ 1000 < rev.n /\ rev.n <= 10000) => size = Str(<<"s","m","a","l","l">>)
                /\ (~isna(rev) /\ 10000 < rev.n /\ rev.n <= 100000) => size = Str(<<"m","e","d","i","u","m">>)
                /\ (~isna(rev) /\ 100000 < rev.n) => size = Str(<<"l","a","r","g","e">>)

\* a master row whose revenue is the boundary value 100000, in the lower bucket
C13_Witness ==
    /\ merger.status = "done"
    /\ \E i \in DOMAIN MasterRows :
           /\ MasterRows[i]["declared_monthly_revenue"] = Num(100000)
           /\ MasterRows[i]["business_size_category"] = Str(<<"m","e","d","i","u","m">>)

(***************************************************************************)
(* Properties of the core metrics and their rates (SpecOrders).            *)
(***************************************************************************)
\* C14 as stated: in every metrics run activation equals acquisition, the
\* acquisition-to-activation drop-off is 0 and, with one customer or more,
\* the activation rate is 100.
C14_ActivationEqualsAcquisition ==
    MetricsComputed =>
        /\ metrics.core_metrics.activation_customers = metrics.core_metrics.acquisition_customers
        /\ metrics.core_metrics.acquisition_to_activation_dropoff = 0
        /\ metrics.core_metrics.acquisition_customers > 0
               => metrics.core_metrics.activation_rate_percent = 10000

\* C14 amended: the acquisition-to-activation drop-off is the number of
\* customers none of whose rows carries an order_id; when every customer has
\* a row with an order_id, activation equals acquisition, the drop-off is 0
\* and the activation rate of one customer or more is 100.
C14_ActivationCountsOrderIds ==
    MetricsComputed =>
        \A df \in {load_engineered_data(disk)} :
        \A customers \in {CustomersOf(df)} :
        \A unordered \in {{c \in customers : OrdersOf(df, c) = 0}} :
            /\ metrics.core_metrics.acquisition_to_activation_dropoff = Cardinality(unordered)
            /\ metrics.core_metrics.activation_customers
                   = metrics.core_metrics.acquisition_customers - Cardinality(unordered)
            /\ unordered = {} =>
                   /\ metrics.core_metrics.activation_customers
                          = metrics.core_metrics.acquisition_customers
                   /\ metrics.core_metrics.acquisition_customers > 0
                          => metrics.core_metrics.activation_rate_percent = 10000

\* a completed run on customers who all have an order_id
C14_Witness ==
    /\ metrics.status = "done"
    /\ \A df \in {load_engineered_data(disk)} :
           /\ Cardinality(CustomersOf(df)) >= 2
           /\ \A c \in CustomersOf(df) : OrdersOf(df, c) >= 1
    /\ metrics.core_metrics.activation_rate_percent = 10000

\* C15: every rate of the Metrics Engine is 0 when its denominator is zero:
\* the activation, drop-off and prevalence rates without customers, the
\* retention and retention drop-off rates without activated customers, and
\* each retention rate of calculate_retention_impact for an empty group.
C15_ZeroDenominatorRates ==
    MetricsComputed =>
        \A df \in {load_engineered_data(disk)} :
        \A customers \in {CustomersOf(df)} :
            /\ customers = {} =>
                   /\ metrics.core_metrics.activation_rate_percent = 0
                   /\ metrics.core_metrics.activation_dropoff_rate_percent = 0
                   /\ metrics.dropoff_metrics.delay_rate_percent = 0
                   /\ metrics.dropoff_metrics.cancellation_rate_percent = 0
                   /\ metrics.dropoff_metrics.negative_review_rate_percent = 0
                   /\ metrics.dropoff_metrics.any_negative_experience_rate_percent = 0
            /\ {c \in customers : OrdersOf(df, c) >= 1} = {} =>
                   /\ metrics.core_metrics.retention_rate_percent = 0
                   /\ metrics.core_metrics.retention_dropoff_rate_percent = 0
            /\ \A sc \in SignalCols :
                   /\ Cohort(sc, 0).size = 0
                          => ImpactOf(sc).retention_without_negative_percent = 0
                   /\ Cohort(sc, 1).size = 0
                          => ImpactOf(sc).retention_with_negative_percent = 0

\* the metrics of an order table without customers have been computed
C15_Witness ==
    /\ MetricsComputed
    /\ CustomersOf(load_engineered_data(disk)) = {}
    /\ metrics.core_metrics.acquisition_customers = 0
    /\ metrics.core_metrics.activation_rate_percent = 0
    /\ ImpactOf("experienced_delay").retention_impact_percent = 0

(***************************************************************************)
(* Properties of the Feature Engine (SpecOrders).                          *)
(***************************************************************************)
\* C16: a run of the Feature Engine never alters the input table it read, and
\* a run that follows a completed run on the same input completes with an
\* engineered table identical to the first run's, in memory and on disk.
C16_FeatureEngineRerunSafe ==
    [][feature'.runs # feature.runs =>
          /\ disk'[MASTER_FILE] = disk[MASTER_FILE]
          /\ feature.status = "done" =>
                 /\ feature'.status = "done"
                 /\ feature'.df = feature.df
                 /\ disk'[ENGINEERED_FILE] = disk[ENGINEERED_FILE]]_vars

\* the Feature Engine has completed a second run on a table with orders
C16_Witness ==
    /\ feature.status = "done"
    /\ feature.runs = 2
    /\ Len(feature.df.rows) >= 2
    /\ disk[ENGINEERED_FILE].exists

(***************************************************************************)
(* Properties of the master table's drop-off flags (SpecMerge).            *)
(***************************************************************************)
\* flag 'col' of master row r is 0 or 1, and 1 exactly when 'cond' holds
FlagIff(r, col, cond) ==
    /\ r[col] \in {Num(0), Num(1)}
    /\ r[col] = Num(1) <=> cond

\* C17: on every master row dropout_after_lead = 1 iff stage_2 = 0,
\* dropout_after_contact = 1 iff stage_2 = 1 and stage_3 = 0,
\* dropout_after_qualification = 1 iff stage_3 = 1 and stage_4 = 0,
\* dropout_after_consultation = 1 iff stage_4 = 1 and stage_5 = 0, and
\* is_converted is the stage_5 flag.
C17_DropOffFlags ==
    merger.status = "done" =>
        \A i \in DOMAIN MasterRows :
            \A r \in {MasterRows[i]} : \A f \in {StageFlags(MasterRows[i])} :
                /\ FlagIff(r, "dropout_after_lead", f[2] = 0)
                /\ FlagIff(r, "dropout_after_contact", f[2] = 1 /\ f[3] = 0)
                /\ FlagIff(r, "dropout_after_qualification", f[3] = 1 /\ f[4] = 0)
                /\ FlagIff(r, "dropout_after_consultation", f[4] = 1 /\ f[5] = 0)
                /\ r["is_converted"] = r["stage_5_deal_closed"]

\* a master with a lead that dropped out after contact and a lead that was
\* qualified without a contact
C17_Witness ==
    /\ merger.status = "done"
    /\ \E i \in DOMAIN MasterRows :
           /\ StageFlags(MasterRows[i])[2] = 1
           /\ StageFlags(MasterRows[i])[3] = 0
           /\ MasterRows[i]["dropout_after_contact"] = Num(1)
    /\ \E i \in DOMAIN MasterRows :
           /\ StageFlags(MasterRows[i])[2] = 0
           /\ StageFlags(MasterRows[i])[3] = 1
           /\ MasterRows[i]["dropout_after_contact"] = Num(0)
           /\ MasterRows[i]["dropout_after_lead"] = Num(1)

(***************************************************************************)
(* Properties of the Cleaner's fills (SpecClean).                          *)
(***************************************************************************)
\* the deals table as loaded, after the duplicate rows are dropped: its rows
\* are the rows of the cleaned deals table, in order
LoadedDeals == drop_duplicates(read_csv(disk[RAW_DEALS]))

ContinuousCols == {"average_stock", "declared_product_catalog_size", "declared_monthly_revenue"}

FilledCols ==
    {categorical_cols[k] : k \in DOMAIN categorical_cols}
    \cup {"has_company", "has_gtin"} \cup ContinuousCols

\* the cells of the loaded deals table that are missing, as <<row, column>>
MissingDealCells ==
    {ic \in (DOMAIN LoadedDeals.rows) \X (FilledCols \cap LoadedDeals.cols) :
        isna(LoadedDeals.rows[ic[1]][ic[2]])}

\* C18 as stated: in the cleaned deals table every originally missing
\* categorical value is 'unknown', every missing has_company / has_gtin is 0,
\* every missing continuous value is the median of the column's non-missing
\* values, and none of these columns holds a missing value.
C18_DealFills ==
    (cleaner.status = "done" /\ cleaner.passes = 1) =>
        /\ Len(cleaner.deals_clean.rows) = Len(LoadedDeals.rows)
        /\ \A ic \in MissingDealCells :
               \A out \in {cleaner.deals_clean.rows[ic[1]][ic[2]]} :
                   IF ic[2] \in ContinuousCols THEN out = median(LoadedDeals, ic[2])
                   ELSE IF ic[2] \in {"has_company", "has_gtin"} THEN out = Num(0)
                   ELSE out = Str(<<"u","n","k","n","o","w","n">>)
        /\ \A i \in DOMAIN cleaner.deals_clean.rows :
               \A c \in FilledCols \cap cleaner.deals_clean.cols :
                   ~isna(cleaner.deals_clean.rows[i][c])

\* C18 amended: categorical and 0/1 columns as stated; a missing continuous
\* value becomes the column's median, clipped at 0 for average_stock and
\* declared_monthly_revenue, and stays missing when the column has no value
\* at all; no other cell of these columns is missing.
C18_DealFillsClipped ==
    (cleaner.status = "done" /\ cleaner.passes = 1) =>
        /\ Len(cleaner.deals_clean.rows) = Len(LoadedDeals.rows)
        /\ \A ic \in MissingDealCells :
               \A out \in {cleaner.deals_clean.rows[ic[1]][ic[2]]} :
               \A med \in {IF ic[2] \in ContinuousCols THEN median(LoadedDeals, ic[2]) ELSE NaN} :
                   IF ic[2] \in ContinuousCols
                   THEN IF isna(med) THEN isna(out)
                        ELSE IF ic[2] # "declared_product_catalog_size" /\ med.n < 0
                        THEN out = Num(0)
                        ELSE out = med
                   ELSE IF ic[2] \in {"has_company", "has_gtin"} THEN out = Num(0)
                   ELSE out = Str(<<"u","n","k","n","o","w","n">>)
        /\ \A i \in DOMAIN cleaner.deals_clean.rows :
               \A c \in FilledCols \cap cleaner.deals_clean.cols :
                   isna(cleaner.deals_clean.rows[i][c])
                       => (c \in ContinuousCols /\ isna(median(LoadedDeals, c)))

\* a Cleaner run that filled a missing revenue with a positive median, a
\* missing segment with 'unknown' and a missing has_company with 0
C18_Witness ==
    /\ cleaner.status = "done"
    /\ cleaner.passes = 1
    /\ \E ic \in MissingDealCells :
           /\ ic[2] = "declared_monthly_revenue"
           /\ cleaner.deals_clean.rows[ic[1]][ic[2]] = Num(4000)
    /\ \E ic \in MissingDealCells :
           /\ ic[2] = "business_segment"
           /\ cleaner.deals_clean.rows[ic[1]][ic[2]] = Str(<<"u","n","k","n","o","w","n">>)
    /\ \E ic \in MissingDealCells :
           /\ ic[2] = "has_company"
           /\ cleaner.deals_clean.rows[ic[1]][ic[2]] = Num(0)

\* a missing revenue filled with a negative median and clipped to 0
C18_ClippedFill ==
    /\ cleaner.status = "done"
    /\ cleaner.passes = 1
    /\ \E ic \in MissingDealCells :
           /\ ic[2] = "declared_monthly_revenue"
           /\ median(LoadedDeals, ic[2]) = Num(0 - 2000)
           /\ cleaner.deals_clean.rows[ic[1]][ic[2]] = Num(0)

(***************************************************************************)
(* Properties of the engineered order columns (SpecOrders).  Dates count   *)
(* hours, so a day is 24.                                                  *)
(***************************************************************************)
EngineeredRows == feature.df.rows

BothDates(r) ==
    r["order_delivered_customer_date"].t = "date" /\ r["order_estimated_delivery_date"].t = "date"

\* hours from the estimate to the delivery
HoursLate(r) == r["order_delivered_customer_date"].n - r["order_estimated_delivery_date"].n

\* delivery_delay_days is the whole days of delivered minus estimated (0 when
\* a date is missing), is_delayed is 1 iff it is positive, and
\* delay_category follows the ladder <= 0, 1..7, 8..30, > 30
DelayColumns(r) ==
    \A days \in {r["delivery_delay_days"]} :
        /\ days.t = "num"
        /\ IF BothDates(r)
           THEN 24 * days.n <= HoursLate(r) /\ HoursLate(r) < 24 * (days.n + 1)
           ELSE days.n = 0
        /\ FlagIff(r, "is_delayed", days.n > 0)
        /\ r["delay_category"] =
               (IF days.n <= 0 THEN Str(<<"O","n"," ","T","i","m","e","/","E","a","r","l","y">>)
                ELSE IF days.n <= 7 THEN Str(<<"M","i","n","o","r"," ","D","e","l","a","y"," ","(","1","-","7"," ","d","a","y","s",")">>)
                ELSE IF days.n <= 30 THEN Str(<<"M","a","j","o","r"," ","D","e","l","a","y"," ","(","8","-","3","0"," ","d","a","y","s",")">>)
                ELSE Str(<<"S","e","v","e","r","e"," ","D","e","l","a","y"," ","(","3","0","+"," ","d","a","y","s",")">>))

\* C19 as stated: the delay columns follow the day difference and the ladder,
\* and an order delivered later than its estimate is always flagged delayed.
C19_LateIsAlwaysDelayed ==
    feature.status = "done" =>
        \A i \in DOMAIN EngineeredRows :
            /\ DelayColumns(EngineeredRows[i])
            /\ (BothDates(EngineeredRows[i]) /\ HoursLate(EngineeredRows[i]) > 0)
                   => EngineeredRows[i]["is_delayed"] = Num(1)

\* C19 amended: the delay is counted in whole days, rounded down, so an order
\* is flagged delayed exactly when it is delivered 24 hours or more after
\* its estimate; the ladder is as stated.
C19_DelayInWholeDays ==
    feature.status = "done" =>
        \A i \in DOMAIN EngineeredRows :
            /\ DelayColumns(EngineeredRows[i])
            /\ FlagIff(EngineeredRows[i], "is_delayed",
                       BothDates(EngineeredRows[i]) /\ HoursLate(EngineeredRows[i]) >= 24)

\* an order delivered 10 days late, in 'Major Delay (8-30 days)'
C19_Witness ==
    /\ feature.status = "done"
    /\ \E i \in DOMAIN EngineeredRows :
           /\ EngineeredRows[i]["delivery_delay_days"] = Num(10)
           /\ EngineeredRows[i]["is_delayed"] = Num(1)
           /\ EngineeredRows[i]["delay_category"] = Str(<<"M","a","j","o","r"," ","D","e","l","a","y"," ","(","8","-","3","0"," ","d","a","y","s",")">>)

\* an order delivered 2 days early, in 'On Time/Early'
C19_EarlyWitness ==
    /\ feature.status = "done"
    /\ \E i \in DOMAIN EngineeredRows :
           /\ EngineeredRows[i]["delivery_delay_days"] = Num(0 - 2)
           /\ EngineeredRows[i]["delay_category"] = Str(<<"O","n"," ","T","i","m","e","/","E","a","r","l","y">>)

\* an order delivered hours after its estimate and not flagged
C19_LateSameDay ==
    /\ feature.status = "done"
    /\ \E i \in DOMAIN EngineeredRows :
           /\ BothDates(EngineeredRows[i])
           /\ HoursLate(EngineeredRows[i]) > 0
           /\ EngineeredRows[i]["is_delayed"] = Num(0)

\* C20: review_score_label is 'No Review' for a missing score, 'Positive
\* (4-5)' for 4 and more, 'Neutral (3)' for 3, 'Negative (1-2)' for 2 and
\* less; has_negative_review = 1 iff the score is 1 or 2; has_no_review = 1
\* iff the score is missing.
C20_ReviewColumns ==
    feature.status = "done" =>
        \A i \in DOMAIN EngineeredRows :
            \A r \in {EngineeredRows[i]} : \A score \in {EngineeredRows[i]["review_score"]} :
                /\ r["review_score_label"] =
                       (IF isna(score) THEN Str(<<"N","o"," ","R","e","v","i","e","w">>)
                        ELSE IF score.n >= 4 THEN Str(<<"P","o","s","i","t","i","v","e"," ","(","4","-","5",")">>)
                        ELSE IF score.n = 3 THEN Str(<<"N","e","u","t","r","a","l"," ","(","3",")">>)
                        ELSE Str(<<"N","e","g","a","t","i","v","e"," ","(","1","-","2",")">>))
                /\ FlagIff(r, "has_negative_review", ~isna(score) /\ score.n \in {1, 2})
                /\ FlagIff(r, "has_no_review", isna(score))

\* an order with review score 2, labelled negative and flagged
C20_Witness ==
    /\ feature.status = "done"
    /\ \E i \in DOMAIN EngineeredRows :
           /\ EngineeredRows[i]["review_score"] = Num(2)
           /\ EngineeredRows[i]["review_score_label"] = Str(<<"N","e","g","a","t","i","v","e"," ","(","1","-","2",")">>)
           /\ EngineeredRows[i]["has_negative_review"] = Num(1)

(***************************************************************************)
(* C21: the repeat-customer columns of every engineered order row.         *)
(***************************************************************************)
RowsOfSameCustomer(r) ==
    Cardinality({j \in DOMAIN EngineeredRows :
                    EngineeredRows[j]["customer_unique_id"] = r["customer_unique_id"]})

CustomerCategoryOf(n) ==
    IF n = 1 THEN Str(<<"O","n","e","-","t","i","m","e"," ","C","u","s","t","o","m","e","r">>)
    ELSE IF n \in 2..3 THEN Str(<<"O","c","c","a","s","i","o","n","a","l"," ","C","u","s","t","o","m","e","r"," ","(","2","-","3"," ","o","r","d","e","r","s",")">>)
    ELSE Str(<<"F","r","e","q","u","e","n","t"," ","C","u","s","t","o","m","e","r"," ","(","4","+"," ","o","r","d","e","r","s",")">>)

\* C21: on every engineered order row total_orders is the number of order rows
\* of the row's customer, is_repeat_customer is 1 iff that number is >= 2, and
\* customer_category is one-time for 1, occasional for 2..3 and frequent only
\* for 4 or more.
C21_RepeatCustomerColumns ==
    feature.status = "done" =>
        \A i \in DOMAIN EngineeredRows :
            \A r \in {EngineeredRows[i]} : \A n \in {RowsOfSameCustomer(r)} :
                /\ r["total_orders"] = Num(n)
                /\ r["is_repeat_customer"] = bool_int(n >= 2)
                /\ r["customer_category"] = CustomerCategoryOf(n)

\* the same, for the rows that carry a customer id
C21_RepeatCustomerColumnsWithId ==
    feature.status = "done" =>
        \A i \in DOMAIN EngineeredRows :
            \A r \in {EngineeredRows[i]} : \A n \in {RowsOfSameCustomer(r)} :
                ~isna(r["customer_unique_id"]) =>
                    /\ r["total_orders"] = Num(n)
                    /\ r["is_repeat_customer"] = bool_int(n >= 2)
                    /\ r["customer_category"] = CustomerCategoryOf(n)

\* an order row without a customer id that is labelled a frequent customer
C21_AnonymousFrequent ==
    /\ feature.status = "done"
    /\ \E i \in DOMAIN EngineeredRows :
          /\ isna(EngineeredRows[i]["customer_unique_id"])
          /\ isna(EngineeredRows[i]["total_orders"])
          /\ EngineeredRows[i]["customer_category"] = CustomerCategoryOf(4)
          /\ RowsOfSameCustomer(EngineeredRows[i]) = 1

(***************************************************************************)
(* C22: the report's biggest retention killer.                             *)
(***************************************************************************)
ReportWritten == metrics.status = "done"
DelayImpact == metrics.dropoff_metrics.delay_retention_impact.retention_impact_percent
CancellationImpact == metrics.dropoff_metrics.cancellation_retention_impact.retention_impact_percent
ReviewImpact == metrics.dropoff_metrics.review_retention_impact.retention_impact_percent
NamesDelay == metrics.retention_killer = <<"D","e","l","i","v","e","r","y"," ","d","e","l","a","y","s">>
NamesCancellation == metrics.retention_killer = <<"C","a","n","c","e","l","l","a","t","i","o","n","s">>
NamesReview == metrics.retention_killer = <<"N","e","g","a","t","i","v","e"," ","r","e","v","i","e","w","s">>

\* C22: the report names the signal with the largest retention impact; delay
\* is named whenever its impact equals the maximum, cancellation whenever its
\* impact equals the maximum and delay's does not, negative review otherwise.
C22_RetentionKillerPick ==
    ReportWritten =>
        /\ NamesDelay <=> (DelayImpact >= CancellationImpact /\ DelayImpact >= ReviewImpact)
        /\ NamesCancellation <=> (CancellationImpact > DelayImpact
                                  /\ CancellationImpact >= ReviewImpact)
        /\ NamesReview <=> (ReviewImpact > DelayImpact /\ ReviewImpact > CancellationImpact)
        /\ NamesDelay \/ NamesCancellation \/ NamesReview

\* cancellation and review tie for the maximum above delay: cancellation is named
C22_Witness ==
    /\ ReportWritten
    /\ CancellationImpact = ReviewImpact
    /\ CancellationImpact > DelayImpact
    /\ NamesCancellation

\* delay ties with another signal for the maximum and is named
C22_DelayTieWitness ==
    /\ ReportWritten
    /\ DelayImpact = max3(DelayImpact, CancellationImpact, ReviewImpact)
    /\ (DelayImpact = CancellationImpact \/ DelayImpact = ReviewImpact)
    /\ DelayImpact # 0
    /\ NamesDelay

\* negative review alone has the largest impact and is named
C22_ReviewWitness ==
    /\ ReportWritten
    /\ NamesReview

(***************************************************************************)
(* C23: the funnel exit points of a master row.                            *)
(***************************************************************************)
ExitCols ==
    <<"is_converted", "dropout_after_lead", "dropout_after_contact",
      "dropout_after_qualification", "dropout_after_consultation">>

\* number of the five exit indicators that are 1 on master row r
ExitCount(r) == Cardinality({k \in 1..5 : r[ExitCols[k]] = Num(1)})

\* the stage flags of a row never rise from one stage to the next
RowMonotonic(r) == \A k \in 2..5 : StageFlags(r)[k] <= StageFlags(r)[k - 1]

\* C23 as stated: every master row has exactly one of is_converted and the
\* four drop-off flags equal to 1.
C23_ExactlyOneExit ==
    merger.status = "done" =>
        \A i \in DOMAIN MasterRows : ExitCount(MasterRows[i]) = 1

\* C23 amended: every master row has at least one of the five indicators
\* equal to 1, and exactly one precisely when its stage flags never rise.
C23_AtLeastOneExit ==
    merger.status = "done" =>
        \A i \in DOMAIN MasterRows :
            /\ \A k \in 1..5 : MasterRows[i][ExitCols[k]] \in {Num(0), Num(1)}
            /\ ExitCount(MasterRows[i]) >= 1
            /\ ExitCount(MasterRows[i]) = 1 <=> RowMonotonic(MasterRows[i])

\* a master with a row of exactly one exit point and a converted row that
\* also dropped out after the lead
C23_Witness ==
    /\ merger.status = "done"
    /\ \E i \in DOMAIN MasterRows :
           /\ RowMonotonic(MasterRows[i])
           /\ ExitCount(MasterRows[i]) = 1
           /\ MasterRows[i]["dropout_after_contact"] = Num(1)
    /\ \E i \in DOMAIN MasterRows :
           /\ MasterRows[i]["is_converted"] = Num(1)
           /\ MasterRows[i]["dropout_after_lead"] = Num(1)
           /\ ExitCount(MasterRows[i]) = 2

(***************************************************************************)
(* C24: the sales-rep stage flags of deals that went through the Cleaner.  *)
(***************************************************************************)
\* the rows of the raw deals file that belong to the lead of master row r
RawDealsOf(r) ==
    {j \in DOMAIN disk[RAW_DEALS].rows :
        csv_parse(disk[RAW_DEALS].rows[j]["mql_id"]) = r["mql_id"]}

\* every raw deal of the lead of r lacks the column col, and there is one
RawRepMissing(r, col) ==
    /\ RawDealsOf(r) # {}
    /\ \A j \in RawDealsOf(r) : isna(csv_parse(disk[RAW_DEALS].rows[j][col]))

\* C24: a master row whose matched raw deal had no sdr_id has stage_3 = 0, and
\* one whose matched raw deal had no sr_id has stage_4 = 0.
C24_RepFlagsDistinguish ==
    merger.status = "done" =>
        \A i \in DOMAIN MasterRows :
            /\ RawRepMissing(MasterRows[i], "sdr_id")
                  => MasterRows[i]["stage_3_sales_qualified"] = Num(0)
            /\ RawRepMissing(MasterRows[i], "sr_id")
                  => MasterRows[i]["stage_4_consultation"] = Num(0)

\* a matched deal without sales reps that counts as qualified and consulted
C24_UnknownRepCounted ==
    /\ merger.status = "done"
    /\ \E i \in DOMAIN MasterRows :
          /\ RawRepMissing(MasterRows[i], "sdr_id")
          /\ RawRepMissing(MasterRows[i], "sr_id")
          /\ MasterRows[i]["sdr_id"] = Str(UNKNOWN)
          /\ MasterRows[i]["sr_id"] = Str(UNKNOWN)
          /\ MasterRows[i]["stage_3_sales_qualified"] = Num(1)
          /\ MasterRows[i]["stage_4_consultation"] = Num(1)

\* after the Cleaner the two flags are 1 on a row exactly when the lead has a
\* deal, so no row drops out after qualification
C24_RepFlagsFollowMatch ==
    merger.status = "done" =>
        \A i \in DOMAIN MasterRows :
            /\ MasterRows[i]["stage_3_sales_qualified"] = bool_int(~Unmatched(MasterRows[i]))
            /\ MasterRows[i]["stage_4_consultation"] = bool_int(~Unmatched(MasterRows[i]))
            /\ MasterRows[i]["dropout_after_qualification"] = Num(0)

(***************************************************************************)
(* C25: the negative-review flag against the negative label.               *)
(***************************************************************************)
LabelledNegative(r) ==
    r["review_score_label"] = Str(<<"N","e","g","a","t","i","v","e"," ","(","1","-","2",")">>)

C25_FlaggedWitness ==
    /\ feature.status = "done"
    /\ \E i \in DOMAIN EngineeredRows :
           /\ EngineeredRows[i]["review_score"] = Num(1)
           /\ LabelledNegative(EngineeredRows[i])
           /\ EngineeredRows[i]["has_negative_review"] = Num(1)

(***************************************************************************)
(* C26: the Feature Engine only adds columns.                              *)
(***************************************************************************)
\* the order table as the Feature Engine loaded it
LoadedOrders == read_csv(disk[MASTER_FILE])

DateCols ==
    {"order_purchase_timestamp", "order_delivered_customer_date",
     "order_estimated_delivery_date"}

\* C26: the engineered table has one row per input order row, in the same
\* order, keeps every input column, and every input column that is not a date
\* column has its input value on every row.
C26_OnlyAddsColumns ==
    feature.status = "done" =>
        \A src \in {LoadedOrders} :
            /\ src.cols \subseteq feature.df.cols
            /\ Len(EngineeredRows) = Len(src.rows)
            /\ \A i \in DOMAIN src.rows : \A c \in src.cols \ DateCols :
                   EngineeredRows[i][c] = src.rows[i][c]
            /\ \A i \in DOMAIN src.rows : \A c \in DateCols :
                   EngineeredRows[i][c] = to_datetime_coerce(src.rows[i][c])

\* an engineered table of a customer with several orders followed by an
\* order without customer id
C26_Witness ==
    /\ feature.status = "done"
    /\ Len(EngineeredRows) >= 3
    /\ Len(EngineeredRows) = Len(LoadedOrders.rows)
    /\ \E i, j \in DOMAIN EngineeredRows :
          /\ i < j
          /\ ~isna(EngineeredRows[i]["customer_unique_id"])
          /\ EngineeredRows[i]["customer_unique_id"] = EngineeredRows[j]["customer_unique_id"]
    /\ \E i \in DOMAIN EngineeredRows : isna(EngineeredRows[i]["customer_unique_id"])

(***************************************************************************)
(* C27: the two definitions of a repeat customer.                          *)
(***************************************************************************)
SummaryRows == metrics.customer_summary.rows

IsRepeatType(s) == s["customer_type"] = Str(<<"R","e","p","e","a","t">>)
IsOneTimeType(s) == s["customer_type"] = Str(<<"O","n","e","-","t","i","m","e">>)

\* the engineered order rows of customer c
RowsOfCustomer(df, c) == {i \in DOMAIN df.rows : df.rows[i]["customer_unique_id"] = c}

\* the Feature Engine flagged every order row of customer c as a repeat customer's
FlaggedRepeat(df, c) ==
    \A i \in RowsOfCustomer(df, c) : df.rows[i]["is_repeat_customer"] = Num(1)

C27_RepeatWithoutOrders ==
    /\ MetricsComputed
    /\ \A df \in {load_engineered_data(disk)} :
          \E k \in DOMAIN SummaryRows :
             /\ IsRepeatType(SummaryRows[k])
             /\ SummaryRows[k]["total_orders"] = Num(0)
             /\ ~FlaggedRepeat(df, SummaryRows[k]["customer_unique_id"])

\* a customer with two rows of which one carries an order_id: flagged by the
\* Feature Engine, 'One-time' in the summary
C27_FlaggedOneTime ==
    /\ MetricsComputed
    /\ \A df \in {load_engineered_data(disk)} :
          \E k \in DOMAIN SummaryRows :
             /\ IsOneTimeType(SummaryRows[k])
             /\ FlaggedRepeat(df, SummaryRows[k]["customer_unique_id"])

(***************************************************************************)
(* C28: conservation and order of the core funnel counts.                  *)
(***************************************************************************)
Core == metrics.core_metrics

\* C28: retention_customers <= activation_customers <= acquisition_customers,
\* both drop-off counts are >= 0, and the two drop-off counts and the
\* retained customers add up to the acquired customers.
C28_CoreCountsConserved ==
    MetricsComputed =>
        /\ Core.acquisition_customers = Len(SummaryRows)
        /\ 0 <= Core.retention_customers
        /\ Core.retention_customers <= Core.activation_customers
        /\ Core.activation_customers <= Core.acquisition_customers
        /\ Core.acquisition_to_activation_dropoff >= 0
        /\ Core.activation_to_retention_dropoff >= 0
        /\ Core.acquisition_to_activation_dropoff + Core.activation_to_retention_dropoff
             + Core.retention_customers = Core.acquisition_customers

\* a summary with a customer lost before activation, one lost before
\* retention and one retained
C28_Witness ==
    /\ metrics.status = "done"
    /\ Core.acquisition_to_activation_dropoff >= 1
    /\ Core.activation_to_retention_dropoff >= 1
    /\ Core.retention_customers >= 1

(***************************************************************************)
(* C29: the combined negative-experience signal of a customer.             *)
(***************************************************************************)
Dropoff == metrics.dropoff_metrics

\* C29: in the customer summary had_negative_experience is 1 exactly when one
\* of experienced_delay, experienced_cancellation and gave_negative_review is
\* 1; the number of customers with any negative experience is at least each
\* of the three per-signal counts and at most their sum.
C29_AnyNegativeIsUnion ==
    MetricsComputed =>
        /\ \A k \in DOMAIN SummaryRows : \A s \in {SummaryRows[k]} :
              /\ \A c \in {"experienced_delay", "experienced_cancellation",
                           "gave_negative_review", "had_negative_experience"} :
                     s[c] \in {Num(0), Num(1)}
              /\ s["had_negative_experience"] = Num(1)
                   <=> (\/ s["experienced_delay"] = Num(1)
                        \/ s["experienced_cancellation"] = Num(1)
                        \/ s["gave_negative_review"] = Num(1))
        /\ Dropoff.customers_with_any_negative_experience >= Dropoff.customers_with_delays
        /\ Dropoff.customers_with_any_negative_experience >= Dropoff.customers_with_cancellations
        /\ Dropoff.customers_with_any_negative_experience
             >= Dropoff.customers_with_negative_reviews
        /\ Dropoff.customers_with_any_negative_experience
             <= Dropoff.customers_with_delays + Dropoff.customers_with_cancellations
                  + Dropoff.customers_with_negative_reviews

\* a customer with a late and badly reviewed order: counted once among the
\* customers with any negative experience and once for each signal
C29_Witness ==
    /\ metrics.status = "done"
    /\ \E k \in DOMAIN SummaryRows :
          /\ SummaryRows[k]["experienced_delay"] = Num(1)
          /\ SummaryRows[k]["gave_negative_review"] = Num(1)
          /\ SummaryRows[k]["had_negative_experience"] = Num(1)
    /\ Dropoff.customers_with_any_negative_experience
         < Dropoff.customers_with_delays + Dropoff.customers_with_negative_reviews

\* two customers with different signals and one without any
C29_DisjointWitness ==
    /\ metrics.status = "done"
    /\ Dropoff.customers_with_delays = 1
    /\ Dropoff.customers_with_cancellations = 1
    /\ Dropoff.customers_with_any_negative_experience = 2
    /\ Len(SummaryRows) = 3

(***************************************************************************)
(* C30: the Metrics Engine on a degenerate engineered table.               *)
(***************************************************************************)
\* the engineered table has no order row, or none of its customers has a state
DegenerateOrders ==
    /\ disk[ENGINEERED_FILE].exists
    /\ \A df \in {load_engineered_data(disk)} :
          /\ metrics_required \subseteq df.cols
          /\ \A i \in DOMAIN df.rows :
                ~isna(df.rows[i]["customer_unique_id"]) => isna(df.rows[i]["customer_state"])

\* the Metrics Engine has run on the engineered table
MetricsRan == metrics.status \in {"done", "crashed"}

\* C30: a Metrics Engine run over a degenerate engineered table completes:
\* the segment metrics, the metrics files and the report are produced, and the
\* rates are reported as 0.
C30_DegenerateRunCompletes ==
    (MetricsRan /\ DegenerateOrders) =>
        /\ metrics.status = "done"
        /\ METRICS_FILES \subseteq outputs
        /\ Len(SummaryRows) = 0 =>
              /\ Core.activation_rate_percent = 0
              /\ Core.retention_rate_percent = 0
              /\ Dropoff.any_negative_experience_rate_percent = 0

\* what the run does instead: it ends in the IndexError with the customer
\* metrics computed and none of its files written
C30_DegenerateRunCrashes ==
    (MetricsRan /\ DegenerateOrders) =>
        /\ metrics.status = "crashed"
        /\ MetricsComputed
        /\ metrics.segment_metrics.top_states = <<>>
        /\ outputs \cap METRICS_FILES = {}

\* a crashed run on an engineered table without order rows
C30_EmptyTableCrash ==
    /\ metrics.status = "crashed"
    /\ DegenerateOrders
    /\ load_engineered_data(disk).rows = <<>>
    /\ Core.acquisition_customers = 0

\* a crashed run on customers none of whom has a state
C30_StatelessCrash ==
    /\ metrics.status = "crashed"
    /\ DegenerateOrders
    /\ Core.acquisition_customers >= 2
    /\ outputs \cap METRICS_FILES = {}

====
